---- MODULE Spec2Model ----
(***************************************************************************)
(* Model of the resource linker of unnamed-snes-engine:                    *)
(*   tools/unnamed_snes_game/insert_resources.py                           *)
(*     ResourceInserter (bank allocator, resource-table patcher),          *)
(*     update_checksum, insert_resources_into_binary.                      *)
(*                                                                         *)
(* A byte buffer (bytes, bytearray, memoryview) is held run-length         *)
(* encoded: a sequence of runs [e |-> end offset, b |-> byte value], with  *)
(* no empty run and no two adjacent runs of one value, so that two         *)
(* buffers are equal exactly when their encodings are equal.               *)
(***************************************************************************)
EXTENDS Integers, Sequences, FiniteSets, TLC

VARIABLES
    memory_map,      \* mappings.memory_map: [mode, first_resource_bank, n_resource_banks]
    view,            \* ResourceInserter.view / sfc_view: the cartridge image
    bank_positions,  \* ResourceInserter.bank_positions (1-based here: bank i is index i+1)
    last,            \* the last call made: operation, arguments, outcome
    n_calls,         \* number of calls made so far
    sfc_input,       \* the image file as it was before the run
    pc,              \* position of insert_resources_into_binary
    co,              \* CompiledData(shared_input, data_store) the resources compile to
    compile_jobs,    \* compile_all_resources: the state of each resource's compilation
    valid,           \* compile_data: no resource has reported an error
    result,          \* what insert_resources_into_binary returned ("none" until it does)
    tileset,         \* convert_metasprite: the Tileset the frames are interned into
    ms_calls,        \* convert_metasprite: the calls made so far, with arguments and outcomes
    ms_input,        \* convert_metasprite: the arguments its functions are applied to
    bytecode,        \* audio: the Bytecode object, [bytecode, n_nested_loops]
    bc_calls         \* audio: the instructions given so far, with what each emitted

vars == <<memory_map, view, bank_positions, last, n_calls, sfc_input, pc,
          co, compile_jobs, valid, result, tileset, ms_calls, ms_input,
          bytecode, bc_calls>>

link_vars == <<co, compile_jobs, valid, result>>

ms_vars == <<tileset, ms_calls, ms_input>>

bc_vars == <<bytecode, bc_calls>>

----------------------------------------------------------------------------
(* Bounds of the model *)

\* number of calls made on one ResourceInserter
MaxCalls == 2

\* longest resource_data list handed to insert_resources
MaxResources == 2

\* number of update_checksum calls made on one image
MaxChecksumCalls == 2

\* number of resources compile_all_resources compiles
NCompileJobs == 3

\* n_processes: the size of the worker pool
NProcesses == 2

----------------------------------------------------------------------------
(* Python buffers, run-length encoded *)

\* A buffer is the sequence of its runs of equal bytes: run i holds byte b and ends
\* before offset e (it starts where run i - 1 ends), and neighbouring runs differ in b.

\* bytes([value]) * count
Fill(count, value) == IF count <= 0 THEN <<>> ELSE << [e |-> count, b |-> value] >>

\* the element of a set of one element: in TheValue({ f(x) : x \in {e} }) the
\* expression e is evaluated once, as the right-hand side of an assignment is
TheValue(S) == CHOOSE y \in S : TRUE

\* bytes(s), s a sequence of byte values
Bytes(s) ==
    LET ends == { i \in 1..Len(s) : i = Len(s) \/ s[i] # s[i + 1] }
    IN  [ k \in 1..Cardinality(ends) |->
            LET i == CHOOSE i \in ends : Cardinality({ j \in ends : j <= i }) = k
            IN  [e |-> i, b |-> s[i]] ]

\* len(buf)
BufLen(buf) == IF buf = <<>> THEN 0 ELSE buf[Len(buf)].e

\* offset of the first byte of run i
RunStart(buf, i) == IF i = 1 THEN 0 ELSE buf[i - 1].e

\* the run that holds offset o, for 0 <= o < len(buf)
RunAt(buf, o) == CHOOSE i \in 1..Len(buf) : RunStart(buf, i) <= o /\ o < buf[i].e

\* the runs of buf, moved by d bytes
Shift(buf, d) == [ i \in 1..Len(buf) |-> [e |-> buf[i].e + d, b |-> buf[i].b] ]

\* x + y
Cat(x, y) ==
    IF x = <<>> THEN y
    ELSE IF y = <<>> THEN x
    ELSE IF x[Len(x)].b = y[1].b
         THEN SubSeq(x, 1, Len(x) - 1) \o Shift(y, BufLen(x))
    ELSE x \o Shift(y, BufLen(x))

\* sum(buf[lo..hi]), by runs
RECURSIVE RunSum(_, _, _)
RunSum(buf, lo, hi) ==
    IF lo > hi THEN 0
    ELSE IF lo = hi THEN (buf[lo].e - RunStart(buf, lo)) * buf[lo].b
    ELSE LET mid == (lo + hi) \div 2
         IN  RunSum(buf, lo, mid) + RunSum(buf, mid + 1, hi)

\* sum(buf)
BufSum(buf) == RunSum(buf, 1, Len(buf))

\* buf[:k]
TakeBytes(buf, k) ==
    IF k <= 0 THEN <<>>
    ELSE IF k >= BufLen(buf) THEN buf
    ELSE LET i == RunAt(buf, k - 1)
         IN  SubSeq(buf, 1, i - 1) \o << [e |-> k, b |-> buf[i].b] >>

\* buf[k:]
DropBytes(buf, k) ==
    IF k <= 0 THEN buf
    ELSE IF k >= BufLen(buf) THEN <<>>
    ELSE Shift(SubSeq(buf, RunAt(buf, k), Len(buf)), -k)

\* buf[a:b]; a slice is clamped to the buffer, as in Python
Slice(buf, a, b) == TakeBytes(DropBytes(buf, a), b - a)

\* buf[o], for 0 <= o < len(buf)
ByteAt(buf, o) == buf[RunAt(buf, o)].b

\* view[o : o + len(blob)] = blob.  A memoryview slice assignment raises ValueError
\* when the slice and the value differ in length, which is when the slice is clamped.
SliceAssign(buf, o, blob) ==
    IF BufLen(Slice(buf, o, o + BufLen(blob))) # BufLen(blob)
    THEN [ok |-> FALSE, view |-> buf]
    ELSE [ok |-> TRUE,
          view |-> Cat(Cat(TakeBytes(buf, o), blob), DropBytes(buf, o + BufLen(blob)))]

\* view[o] = value.  Raises IndexError out of range, ValueError unless 0 <= value <= 255.
SetByte(buf, o, value) ==
    IF o < 0 \/ o >= BufLen(buf) \/ value < 0 \/ value > 255
    THEN [ok |-> FALSE, view |-> buf]
    ELSE SliceAssign(buf, o, Fill(1, value))

\* a sequence of view[o] = value statements, stopping at the first that raises
RECURSIVE SetBytes(_, _, _)
SetBytes(buf, o, values) ==
    IF values = <<>> THEN [ok |-> TRUE, view |-> buf]
    ELSE TheValue({ IF w.ok THEN SetBytes(w.view, o + 1, Tail(values)) ELSE w :
                    w \in { SetByte(buf, o, Head(values)) } })

----------------------------------------------------------------------------
(* Python integers *)

\* a & b, for a, b >= 0
RECURSIVE BitAnd(_, _)
BitAnd(a, b) ==
    IF a = 0 \/ b = 0 THEN 0
    ELSE (a % 2) * (b % 2) + 2 * BitAnd(a \div 2, b \div 2)

\* a ^ b, for a, b >= 0
RECURSIVE BitXor(_, _)
BitXor(a, b) ==
    IF a = 0 THEN b
    ELSE IF b = 0 THEN a
    ELSE (((a % 2) + (b % 2)) % 2) + 2 * BitXor(a \div 2, b \div 2)

\* a.bit_count(), for a >= 0
RECURSIVE bit_count(_)
bit_count(a) == IF a = 0 THEN 0 ELSE (a % 2) + bit_count(a \div 2)

----------------------------------------------------------------------------
(* Memory map modes (MemoryMapMode of _common) *)

HIROM == [name |-> "hirom", bank_start |-> 0, bank_size |-> 65536]

LOROM == [name |-> "lorom", bank_start |-> 32768, bank_size |-> 32768]

\* the rom offset of a 24 bit address: bank_size stride, bank_start offset
address_to_rom_offset(mode, addr) ==
    ((addr \div 65536) % 64) * mode.bank_size + ((addr % 65536) - mode.bank_start)

----------------------------------------------------------------------------
(* The inputs: memory maps, symbol table, the assembled image *)

ROM_HEADER_V3_ADDR == 65456

ROM_HEADER_TITLE_ADDR == 65472

ROM_HEADER_TITLE_SIZE == 21

\* mappings.memory_map of the runs explored; the resource banks follow the code banks
MemoryMaps ==
    { [mode |-> HIROM, first_resource_bank |-> 194, n_resource_banks |-> 2],
      [mode |-> LOROM, first_resource_bank |-> 130, n_resource_banks |-> 2],
      [mode |-> LOROM, first_resource_bank |-> 130, n_resource_banks |-> 1] }

\* ResourceType: the values of the enumeration
ResourceTypes == {0, 1}

\* number of resources of each type the assembled image was built for
NResourcesPerType == <<2, 1>>

\* the bank the assembler placed the code and the tables in (0xC0 hirom, 0x80 lorom)
CodeBank(mm) == mm.first_resource_bank - 2

\* symbols: name -> address, from the assembler's symbol file: the labels the
\* linker uses, and a variable in work RAM
Symbols(mm) ==
    [NResourcesPerTypeTable     |-> CodeBank(mm) * 65536 + 36864,
     ResourceEntryTable         |-> CodeBank(mm) * 65536 + 36880,
     RoomsTable                 |-> CodeBank(mm) * 65536 + 37888,
     EntityRomData              |-> CodeBank(mm) * 65536 + 38912,
     UseResourcesOverUsb2Snes   |-> CodeBank(mm) * 65536 + 39424,
     frameCounter               |-> 126 * 65536 + 256]

\* address (within the table bank) of the resource table of a type
TableAddr16(resource_type) == 37120 + 256 * resource_type

\* len(sfc_data) that validate_sfc_file accepts
ExpectedSize(mm) ==
    ((mm.first_resource_bank + mm.n_resource_banks) % 64) * mm.mode.bank_size

\* buf with blob written at offset o
Overlay(buf, o, blob) == SliceAssign(buf, o, blob).view

\* mappings.game_title, encoded
GameTitle == Bytes(<<85, 83, 69>>)

\* s.encode(...).ljust(ROM_HEADER_TITLE_SIZE, b"\x20"): [ok, title]
convert_title(s) ==
    LET title == Cat(s, Fill(ROM_HEADER_TITLE_SIZE - BufLen(s), 32))
    IN  [ok |-> BufLen(title) = ROM_HEADER_TITLE_SIZE, title |-> title]

\* expected_blank_entity_rom_data(symbols, n_entities)
BlankEntityRomData == Fill(16, 0)

\* The image the assembler produced: 0xFF filler, the two resource index tables,
\* blank resource tables, blank entity data, the header (6 spaces, 6 zeroes, the
\* title) and a placeholder checksum (complement 0xFFFF, checksum 0).
AssembledImage(mm) ==
    LET off(a) == address_to_rom_offset(mm.mode, a)
        sym == Symbols(mm)
        bank == CodeBank(mm) * 65536
        i0 == Fill(ExpectedSize(mm), 255)
        i1 == Overlay(i0, off(sym.NResourcesPerTypeTable),
                      Bytes(<<NResourcesPerType[1], NResourcesPerType[2]>>))
        i2 == Overlay(i1, off(sym.ResourceEntryTable),
                      Bytes(<<TableAddr16(0) % 256, TableAddr16(0) \div 256,
                              TableAddr16(1) % 256, TableAddr16(1) \div 256>>))
        i3 == Overlay(i2, off(bank + TableAddr16(0)), Fill(5 * NResourcesPerType[1], 0))
        i4 == Overlay(i3, off(bank + TableAddr16(1)), Fill(5 * NResourcesPerType[2], 0))
        i5 == Overlay(i4, off(sym.EntityRomData), BlankEntityRomData)
        i6 == Overlay(i5, off(ROM_HEADER_V3_ADDR), Cat(Fill(6, 32), Fill(6, 0)))
        i7 == Overlay(i6, off(ROM_HEADER_TITLE_ADDR), convert_title(GameTitle).title)
    IN  Overlay(i7, off(65500), Cat(Fill(2, 255), Fill(2, 0)))

\* blobs handed to the inserter: one repeated byte value, of these lengths
BlobSizes == {16384, 32768, 32769, 65537}

BlobValues == {170}

Blobs == { Fill(size, value) : size \in BlobSizes, value \in BlobValues }

\* lists of blobs handed to insert_resources
ResourceBlobSizes == {4660, 32768}

ResourceBlobs == { Fill(size, value) : size \in ResourceBlobSizes, value \in BlobValues }

\* lists with a resource of 0xFFFF bytes, one more than a table entry's size may be
OversizedLists ==
    { << Fill(65535, 170) >>, << Fill(4660, 170), Fill(65535, 170) >> }

ResourceLists ==
    UNION { [1..k -> ResourceBlobs] : k \in 0..MaxResources } \cup OversizedLists

----------------------------------------------------------------------------
(* class ResourceInserter *)

BANK_END == 65536

BLANK_RESOURCE_ENTRY == Fill(5, 0)

\* what a call leaves behind: the object's state, how it ended ("ok" or the
\* exception raised) and the value returned
Result(v, bp, outcome, ret) ==
    [view |-> v, bank_positions |-> bp, outcome |-> outcome, ret |-> ret]

\* faulty variant: an exact fit refused (< for <=)
blob_fits_strict(position, blob_size) == position + blob_size < BANK_END

\* faulty variant: the blob's size left out of the comparison
blob_fits_ignoring_size(position, blob_size) == position <= BANK_END

\* if self.bank_positions[i] + blob_size <= self.BANK_END
blob_fits(position, blob_size) == position + blob_size <= BANK_END

\* addr = ((self.bank_offset + i) << 16) + self.bank_positions[i]
bank_address(i, u16_addr) == (memory_map.first_resource_bank + i) * 65536 + u16_addr

\* for i in range(len(self.bank_positions)): ...  raise RuntimeError
RECURSIVE insert_blob_loop(_, _, _)
insert_blob_loop(self, blob, i) ==
    LET blob_size == BufLen(blob) IN
    IF i >= Len(self.bank_positions)
    THEN Result(self.view, self.bank_positions, "RuntimeError", -1)
    ELSE IF blob_fits(self.bank_positions[i + 1], blob_size)
    THEN LET addr == bank_address(i, self.bank_positions[i + 1])
             rom_offset == address_to_rom_offset(memory_map.mode, addr)
             w == SliceAssign(self.view, rom_offset, blob)
         IN  IF ~w.ok
             THEN Result(self.view, self.bank_positions, "ValueError", -1)
             ELSE Result(w.view,
                         [self.bank_positions EXCEPT ![i + 1] = @ + blob_size],
                         "ok", addr)
    ELSE insert_blob_loop(self, blob, i + 1)

insert_blob(self, blob) ==
    LET blob_size == BufLen(blob) IN
    IF ~(blob_size > 0 /\ blob_size <= memory_map.mode.bank_size)
    THEN Result(self.view, self.bank_positions, "AssertionError", -1)
    ELSE insert_blob_loop(self, blob, 0)

\* faulty variant: a bank that holds data taken for an empty one
bank_is_empty_or_used(u16_addr) == u16_addr >= memory_map.mode.bank_start

\* if u16_addr != self.bank_start: raise
bank_is_empty(u16_addr) == u16_addr = memory_map.mode.bank_start

\* if blob_size > self.BANK_END: raise
start_of_bank_blob_too_large(blob_size) == blob_size > BANK_END

insert_blob_into_start_of_bank(self, bank_id, blob) ==
    LET blob_size == BufLen(blob) IN
    IF ~(blob_size > 0)
    THEN Result(self.view, self.bank_positions, "AssertionError", -1)
    ELSE IF bank_id >= Len(self.bank_positions)
    THEN Result(self.view, self.bank_positions, "IndexError", -1)
    ELSE LET u16_addr == self.bank_positions[bank_id + 1] IN
    IF ~bank_is_empty(u16_addr)
    THEN Result(self.view, self.bank_positions, "RuntimeError", -1)
    ELSE IF start_of_bank_blob_too_large(blob_size)
    THEN Result(self.view, self.bank_positions, "RuntimeError", -1)
    ELSE LET addr == bank_address(bank_id, u16_addr)
             rom_offset == address_to_rom_offset(memory_map.mode, addr)
             w == SliceAssign(self.view, rom_offset, blob)
         IN  IF ~w.ok
             THEN Result(self.view, self.bank_positions, "ValueError", -1)
             ELSE Result(w.view,
                         [self.bank_positions EXCEPT ![bank_id + 1] = @ + blob_size],
                         "ok", addr)

\* self.view[self.address_to_rom_offset(addr)]
read_u8(self, addr) == ByteAt(self.view, address_to_rom_offset(memory_map.mode, addr))

\* self.view[ra] | (self.view[ra + 1] << 8)
read_u16(self, addr) ==
    LET ra == address_to_rom_offset(memory_map.mode, addr)
    IN  ByteAt(self.view, ra) + 256 * ByteAt(self.view, ra + 1)

\* returns (resource_table_addr, expected_n_resources)
resource_table_for_type(self, resource_type) ==
    LET resource_type_id == resource_type
        nrptt_addr == Symbols(memory_map).NResourcesPerTypeTable
        retable_addr == Symbols(memory_map).ResourceEntryTable
    IN  [expected_n_resources |-> read_u8(self, nrptt_addr + resource_type_id),
         resource_table_addr |->
             \* read_u16(...) | (retable_addr & 0xFF0000): the two have no bit in common
             read_u16(self, retable_addr + resource_type_id * 2)
                 + (retable_addr \div 65536) * 65536]

\* assert size > 0 and size < 0xFFFF
resource_size_ok(size) == size > 0 /\ size < 65535

\* faulty variant: the blank check left out
slot_not_checked(v, table_pos) == TRUE

\* assert self.view[table_pos : table_pos + 5] == self.BLANK_RESOURCE_ENTRY
slot_is_blank(v, table_pos) == Slice(v, table_pos, table_pos + 5) = BLANK_RESOURCE_ENTRY

\* faulty variant: the size written high byte first
resource_entry_size_swapped(addr, size) ==
    << addr % 256, (addr \div 256) % 256, addr \div 65536, size \div 256, size % 256 >>

\* the five bytes written to a table slot
resource_entry(addr, size) ==
    << addr % 256, (addr \div 256) % 256, addr \div 65536, size % 256, size \div 256 >>

\* for data in resource_data: ...
RECURSIVE insert_resources_loop(_, _, _)
insert_resources_loop(self, table_pos, resource_data) ==
    IF resource_data = <<>>
    THEN Result(self.view, self.bank_positions, "ok", -1)
    ELSE LET data == Head(resource_data)
             size == BufLen(data)
         IN  IF ~resource_size_ok(size)
             THEN Result(self.view, self.bank_positions, "AssertionError", -1)
             ELSE TheValue({
                 IF placed.outcome # "ok"
                 THEN Result(self.view, self.bank_positions, placed.outcome, -1)
                 ELSE IF ~slot_is_blank(placed.view, table_pos)
                 THEN Result(placed.view, placed.bank_positions, "AssertionError", -1)
                 ELSE TheValue({
                     IF ~w.ok
                     THEN Result(w.view, placed.bank_positions, "ValueError", -1)
                     ELSE insert_resources_loop(
                              [view |-> w.view, bank_positions |-> placed.bank_positions],
                              table_pos + 5, Tail(resource_data)) :
                     w \in { SetBytes(placed.view, table_pos,
                                      resource_entry(placed.ret, size)) } }) :
                 placed \in { insert_blob(self, data) } })

\* faulty variant: only a list that is too long is refused
count_too_large(n_given, expected_n_resources) == n_given > expected_n_resources

\* if len(resource_data) != expected_n_resources: raise
count_mismatch(n_given, expected_n_resources) == n_given # expected_n_resources

insert_resources(self, resource_type, resource_data) ==
    LET t == resource_table_for_type(self, resource_type) IN
    IF count_mismatch(Len(resource_data), t.expected_n_resources)
    THEN Result(self.view, self.bank_positions, "RuntimeError", -1)
    ELSE insert_resources_loop(
             self, address_to_rom_offset(memory_map.mode, t.resource_table_addr),
             resource_data)

----------------------------------------------------------------------------
(* The ResourceInserter as a state machine: any sequence of calls *)

Self == [view |-> view, bank_positions |-> bank_positions]

NoCall == [op |-> "none", outcome |-> "ok", ret |-> -1, bank_id |-> -1,
           blob |-> <<>>, resource_type |-> -1, resource_data |-> <<>>]

\* the variables of convert_metasprite, when it is not what runs
\* the variables of the audio tools, when they are not what runs
NotAssembling == bytecode = <<>> /\ bc_calls = <<>>

NotConverting ==
    /\ tileset = <<>>
    /\ ms_calls = <<>>
    /\ ms_input = <<>>

\* the variables of insert_resources_into_binary, when it is not what runs
NotLinking ==
    /\ co = [symbols_ok |-> TRUE, data_store |-> <<>>]
    /\ compile_jobs = <<>>
    /\ valid = TRUE
    /\ result = "none"

\* ResourceInserter.__init__ on an image that validate_sfc_file accepts
Init ==
    /\ memory_map \in MemoryMaps
    /\ view = AssembledImage(memory_map)
    /\ bank_positions = [i \in 1..memory_map.n_resource_banks |-> memory_map.mode.bank_start]
    /\ last = NoCall
    /\ n_calls = 0
    /\ sfc_input = view
    /\ pc = "inserter"
    /\ NotLinking
    /\ NotConverting
    /\ NotAssembling

Returned(r, call) ==
    /\ view' = r.view
    /\ bank_positions' = r.bank_positions
    /\ last' = [call EXCEPT !.outcome = r.outcome, !.ret = r.ret]
    /\ n_calls' = n_calls + 1
    /\ UNCHANGED <<bc_vars, ms_vars, memory_map, sfc_input, pc, link_vars>>

Call_insert_blob ==
    /\ pc = "inserter"
    /\ n_calls < MaxCalls
    /\ \E blob \in Blobs :
          \E r \in { insert_blob(Self, blob) } :
             Returned(r, [NoCall EXCEPT !.op = "insert_blob", !.blob = blob])

Call_insert_blob_into_start_of_bank ==
    /\ pc = "inserter"
    /\ n_calls < MaxCalls
    /\ \E blob \in Blobs, bank_id \in 0..memory_map.n_resource_banks :
          \E r \in { insert_blob_into_start_of_bank(Self, bank_id, blob) } :
             Returned(r, [NoCall EXCEPT !.op = "insert_blob_into_start_of_bank",
                                        !.bank_id = bank_id, !.blob = blob])

Call_insert_resources ==
    /\ pc = "inserter"
    /\ n_calls < MaxCalls
    /\ \E resource_type \in ResourceTypes, resource_data \in ResourceLists :
          \E r \in { insert_resources(Self, resource_type, resource_data) } :
             Returned(r, [NoCall EXCEPT !.op = "insert_resources",
                                        !.resource_type = resource_type,
                                        !.resource_data = resource_data])

Next ==
    \/ Call_insert_blob
    \/ Call_insert_blob_into_start_of_bank
    \/ Call_insert_resources

Spec == Init /\ [][Next]_vars

----------------------------------------------------------------------------
(* update_checksum *)

\* faulty variant: the old checksum and complement bytes left in the sum
checksum_keeping_old(total, old) == BitAnd(total + 255 + 255, 65535)

\* checksum = sum(sfc_view); checksum -= sum(old header); checksum += 0xFF + 0xFF;
\* checksum = checksum & 0xFFFF
checksum_of(total, old) == BitAnd(total - old + 255 + 255, 65535)

\* faulty variant: only the low byte complemented
complement_low_byte(checksum) == BitXor(checksum, 255)

\* complement = checksum ^ 0xFFFF
complement_of(checksum) == BitXor(checksum, 65535)

\* the four bytes written at cs_header_offset
checksum_header(checksum, complement) ==
    << BitAnd(complement, 255), complement \div 256,
       BitAnd(checksum, 255), checksum \div 256 >>

\* faulty variant: only the two complement bytes taken for the old header
old_complement_sum(sfc_view, cs_header_offset) ==
    BufSum(Slice(sfc_view, cs_header_offset, cs_header_offset + 2))

\* sum(sfc_view[cs_header_offset : cs_header_offset + 4])
old_header_sum(sfc_view, cs_header_offset) ==
    BufSum(Slice(sfc_view, cs_header_offset, cs_header_offset + 4))

\* faulty variant: any length but zero taken for a power of two
size_is_not_zero(size) == bit_count(size) >= 1

\* len(sfc_view).bit_count() == 1
size_is_power_of_two(size) == bit_count(size) = 1

update_checksum(sfc_view, mm) ==
    LET mm_mode == mm.mode
        cs_header_offset == address_to_rom_offset(mm_mode, 65500)
    IN  IF BufLen(sfc_view) % mm_mode.bank_size # 0
        THEN [view |-> sfc_view, outcome |-> "RuntimeError"]
        ELSE IF ~size_is_power_of_two(BufLen(sfc_view))
        THEN [view |-> sfc_view, outcome |-> "RuntimeError"]
        ELSE LET checksum == checksum_of(
                     BufSum(sfc_view), old_header_sum(sfc_view, cs_header_offset))
                 complement == complement_of(checksum)
                 w == SetBytes(sfc_view, cs_header_offset,
                               checksum_header(checksum, complement))
             IN  [view |-> w.view, outcome |-> IF w.ok THEN "ok" ELSE "IndexError"]

----------------------------------------------------------------------------
(* update_checksum on its own: any image, called once or twice *)

\* modes and lengths of the images: no byte, half a bank, one to four banks
ChecksumImageBanks == {0, 1, 2, 3, 4}

ChecksumFillers == {0, 255}

\* what the four checksum header bytes hold before: the conventional placeholder,
\* zeroes, or anything else
ChecksumOldHeaders ==
    { <<255, 255, 0, 0>>, <<0, 0, 0, 0>>, <<18, 52, 86, 120>>, <<255, 255, 255, 255>> }

\* bytes of value 0xAA at the start of the image
ChecksumPayloads == {0, 4660}

ChecksumImage(mode, len, filler, payload, header) ==
    LET i0 == Fill(len, filler)
        i1 == Overlay(i0, 0, Fill(payload, 170))
    IN  SetBytes(i1, address_to_rom_offset(mode, 65500), header).view

ChecksumImages(mode) ==
    { ChecksumImage(mode, len, filler, payload, header) :
          len \in { k * mode.bank_size : k \in ChecksumImageBanks }
                      \cup { mode.bank_size \div 2 },
          filler \in ChecksumFillers,
          payload \in ChecksumPayloads,
          header \in ChecksumOldHeaders }

InitChecksum ==
    /\ memory_map \in MemoryMaps
    /\ view \in ChecksumImages(memory_map.mode)
    /\ sfc_input = view
    /\ bank_positions = <<>>
    /\ last = NoCall
    /\ n_calls = 0
    /\ pc = "checksum"
    /\ NotLinking
    /\ NotConverting
    /\ NotAssembling

Call_update_checksum ==
    /\ pc = "checksum"
    /\ n_calls < MaxChecksumCalls
    /\ LET r == update_checksum(view, memory_map)
       IN  /\ view' = r.view
           /\ last' = [NoCall EXCEPT !.op = "update_checksum", !.outcome = r.outcome]
    /\ n_calls' = n_calls + 1
    /\ UNCHANGED <<bc_vars, ms_vars, memory_map, bank_positions, sfc_input, pc, link_vars>>

NextChecksum == Call_update_checksum

SpecChecksum == InitChecksum /\ [][NextChecksum]_vars

----------------------------------------------------------------------------
(* validate_sfc_file and the rest of ResourceInserter *)

Max(S) == CHOOSE x \in S : \A y \in S : x >= y

\* a & 0xFE0000 != 0x7E: Python compares after masking
is_rom_address(a) == BitAnd(a, 16646144) # 126

\* max([a for a in symbols.values() if a & 0xFE0000 != 0x7E])
get_largest_rom_address(symbols) ==
    Max({ symbols[k] : k \in { l \in DOMAIN symbols : is_rom_address(symbols[l]) } })

\* "ok", or the exception validate_sfc_file raises
validate_sfc_file(sfc_data, symbols, mm) ==
    LET last_symbol_bank == get_largest_rom_address(symbols) \div 65536
        expected_size == ExpectedSize(mm)
        expected_header_start == Cat(Fill(6, 32), Fill(6, 0))
        header_offset == address_to_rom_offset(mm.mode, ROM_HEADER_V3_ADDR)
        title_offset == address_to_rom_offset(mm.mode, ROM_HEADER_TITLE_ADDR)
        expected_title == convert_title(GameTitle)
        o == address_to_rom_offset(mm.mode, symbols.UseResourcesOverUsb2Snes)
    IN  IF last_symbol_bank >= mm.first_resource_bank THEN "RuntimeError"
        ELSE IF BufLen(sfc_data) # expected_size THEN "RuntimeError"
        ELSE IF expected_header_start # Slice(sfc_data, header_offset, header_offset + 12)
        THEN "RuntimeError"
        ELSE IF ~expected_title.ok THEN "ValueError"
        ELSE IF Slice(sfc_data, title_offset, title_offset + ROM_HEADER_TITLE_SIZE)
                    # expected_title.title
        THEN "RuntimeError"
        ELSE IF ByteAt(sfc_data, o) # 255 THEN "ValueError"
        ELSE "ok"

\* self.address_to_rom_offset(self.symbols[label])
label_offset(label_addr) == address_to_rom_offset(memory_map.mode, label_addr)

\* NOTE: There is no boundary checking.
insert_blob_at_label(self, label_addr, blob) ==
    LET w == SliceAssign(self.view, label_offset(label_addr), blob)
    IN  Result(w.view, self.bank_positions, IF w.ok THEN "ok" ELSE "ValueError", -1)

\* "ok" or RuntimeError
confirm_initial_data_is_correct(self, label_addr, expected_data) ==
    LET o == label_offset(label_addr)
    IN  IF Slice(self.view, o, o + BufLen(expected_data)) # expected_data
        THEN "RuntimeError" ELSE "ok"

\* for room_id, room_data in enumerate(rooms): if room_data: ...
\* rooms lists the rooms that have data, [room_id, data], by room_id
RECURSIVE room_table_loop(_, _, _, _)
room_table_loop(rooms, room_table, room_data_blob, room_addr) ==
    IF rooms = <<>>
    THEN [ok |-> TRUE, room_table |-> room_table, room_data_blob |-> room_data_blob]
    ELSE LET room == Head(rooms) IN
         TheValue({
             IF ~w.ok
             THEN [ok |-> FALSE, room_table |-> room_table, room_data_blob |-> room_data_blob]
             ELSE room_table_loop(Tail(rooms), w.view, blob, room_addr + BufLen(room.data)) :
             w \in { SetBytes(room_table, room.room_id * 2,
                              << BitAnd(room_addr, 255), room_addr \div 256 >>) },
             blob \in { Cat(room_data_blob, room.data) } })

insert_room_data(self, bank_offset, rooms) ==
    TheValue({
        IF ~t.ok THEN Result(self.view, self.bank_positions, "ValueError", -1)
        ELSE TheValue({
            IF ~w.ok THEN Result(self.view, self.bank_positions, "ValueError", -1)
            ELSE insert_blob_into_start_of_bank(
                     [view |-> w.view, bank_positions |-> self.bank_positions],
                     bank_offset, t.room_data_blob) :
            w \in { SliceAssign(self.view, label_offset(Symbols(memory_map).RoomsTable),
                                t.room_table) } }) :
        t \in { room_table_loop(rooms, Fill(512, 255), <<>>, memory_map.mode.bank_start) } })

----------------------------------------------------------------------------
(* insert_resources (the function), compile_data, insert_resources_into_binary *)

ROOM_DATA_BANK_OFFSET == 0

MS_FS_DATA_BANK_OFFSET == 1

\* for r_type in ResourceType: ri.insert_resources(r_type, ...)
RECURSIVE insert_all_types(_, _, _)
insert_all_types(self, resources, r_type) ==
    IF r_type \notin ResourceTypes
    THEN Result(self.view, self.bank_positions, "ok", -1)
    ELSE TheValue({
             IF r.outcome # "ok" THEN r
             ELSE insert_all_types([view |-> r.view, bank_positions |-> r.bank_positions],
                                   resources, r_type + 1) :
             r \in { insert_resources(self, r_type, resources[r_type + 1]) } })

\* where insert_resources (the function) left the image, and how it ended
Left(r, how, n_steps) ==
    [view |-> r.view, bank_positions |-> r.bank_positions,
     outcome |-> how, steps |-> n_steps]

\* statement k of insert_resources(sfc_view, shared_input, data_store), on the
\* inserter ri (from statement 3 on; before that, on the image):
\*   1  validate_entity_rom_data_symbols(shared_input.symbols, n_entities)
\*   2  ri = ResourceInserter(...), which validates the image
\*   3  ri.confirm_initial_data_is_correct(ENTITY_ROM_DATA_LABEL, ...)
\*   4  ri.insert_room_data(ROOM_DATA_BANK_OFFSET, ...)
\*   5  assert msfs_entity_data and ... .msfs_data and ... .entity_rom_data
\*   6  ri.insert_blob_into_start_of_bank(MS_FS_DATA_BANK_OFFSET, ...)
\*   7  ri.insert_blob_at_label(ENTITY_ROM_DATA_LABEL, ...)
\*   8  for r_type in ResourceType: ri.insert_resources(r_type, ...)
\*   9  ri.insert_blob_at_label(USE_RESOURCES_OVER_USB2SNES_LABEL, bytes(1))
link_statement(k, ri, shared_input, data_store) ==
    LET symbols == Symbols(memory_map)
        only(outcome) == Result(ri.view, ri.bank_positions, outcome, -1)
    IN  CASE k = 1 -> only(IF shared_input.symbols_ok THEN "ok" ELSE "ValueError")
          [] k = 2 -> only(validate_sfc_file(ri.view, symbols, memory_map))
          [] k = 3 -> only(confirm_initial_data_is_correct(ri, symbols.EntityRomData,
                                                           BlankEntityRomData))
          [] k = 4 -> insert_room_data(ri, ROOM_DATA_BANK_OFFSET, data_store.rooms)
          [] k = 5 -> only(IF data_store.msfs_data = <<>>
                                  \/ data_store.entity_rom_data = <<>>
                           THEN "AssertionError" ELSE "ok")
          [] k = 6 -> insert_blob_into_start_of_bank(ri, MS_FS_DATA_BANK_OFFSET,
                                                     data_store.msfs_data)
          [] k = 7 -> insert_blob_at_label(ri, symbols.EntityRomData,
                                           data_store.entity_rom_data)
          [] k = 8 -> insert_all_types(ri, data_store.resources, 0)
          [] k = 9 -> insert_blob_at_label(ri, symbols.UseResourcesOverUsb2Snes, Fill(1, 0))

\* statements k to 9, in order; the first exception ends the call.
\* steps counts the statements that completed.
RECURSIVE link_statements(_, _, _, _)
link_statements(k, ri, shared_input, data_store) ==
    IF k > 9 THEN Left(ri, "ok", 9)
    ELSE TheValue({
             IF r.outcome # "ok" THEN Left(r, r.outcome, k - 1)
             ELSE link_statements(k + 1, [view |-> r.view, bank_positions |-> r.bank_positions],
                                  shared_input, data_store) :
             r \in { link_statement(k, ri, shared_input, data_store) } })

module_insert_resources(sfc_view, shared_input, data_store) ==
    link_statements(
        1,
        [view |-> sfc_view,
         bank_positions |-> [i \in 1..memory_map.n_resource_banks |->
                                memory_map.mode.bank_start]],
        shared_input, data_store)

\* faulty variant: the data returned although a resource reported an error
compile_data_ignoring_errors(is_valid) == "CompiledData"

\* if valid: return CompiledData(shared_input, data_store) else: return None
compile_data(is_valid) == IF is_valid THEN "CompiledData" ELSE "None"

\* what the resources compile to
Rooms == << [room_id |-> 0, data |-> Fill(4660, 170)],
            [room_id |-> 3, data |-> Fill(16384, 170)] >>

DataStores ==
    { [rooms |-> rooms, msfs_data |-> Fill(16384, 187),
       entity_rom_data |-> Fill(16, 17), resources |-> resources] :
          rooms \in { Rooms, <<>> },
          resources \in { << << Fill(4660, 170), Fill(32768, 170) >>, << Fill(4660, 170) >> >>,
                          << << Fill(4660, 170), Fill(4660, 170) >>, << Fill(4660, 170) >> >>,
                          << << Fill(4660, 170), Fill(4660, 170) >>, << >> >> } }

\* memory maps of the images linked: four banks, and one of five banks
LinkMemoryMaps ==
    MemoryMaps \cup { [mode |-> HIROM, first_resource_bank |-> 194, n_resource_banks |-> 3] }

\* the image files linked: as assembled, with resources already inserted, cut short
SfcFiles(mm) ==
    { AssembledImage(mm),
      Overlay(AssembledImage(mm),
              address_to_rom_offset(mm.mode, Symbols(mm).UseResourcesOverUsb2Snes),
              Fill(1, 0)),
      TakeBytes(AssembledImage(mm), mm.mode.bank_size) }

CompileJobs == 1..NCompileJobs

InitLink ==
    /\ memory_map \in LinkMemoryMaps
    /\ sfc_input \in SfcFiles(memory_map)
    /\ co \in [symbols_ok : BOOLEAN, data_store : DataStores]
    /\ view = <<>>
    /\ bank_positions = <<>>
    /\ last = NoCall
    /\ n_calls = 0
    /\ pc = "compile_data"
    /\ compile_jobs = [j \in CompileJobs |-> "pending"]
    /\ valid = TRUE
    /\ result = "none"
    /\ NotConverting
    /\ NotAssembling

\* compile_all_resources: a worker of the pool takes a resource
Compile_start ==
    /\ pc = "compile_data"
    /\ Cardinality({ j \in CompileJobs : compile_jobs[j] = "compiling" }) < NProcesses
    /\ \E j \in CompileJobs :
          /\ compile_jobs[j] = "pending"
          /\ compile_jobs' = [compile_jobs EXCEPT ![j] = "compiling"]
    /\ UNCHANGED <<bc_vars, ms_vars, memory_map, view, bank_positions, last, n_calls, sfc_input, pc,
                   co, valid, result>>

\* compile_all_resources: a worker returns a resource's data
Compile_ok ==
    /\ pc = "compile_data"
    /\ \E j \in CompileJobs :
          /\ compile_jobs[j] = "compiling"
          /\ compile_jobs' = [compile_jobs EXCEPT ![j] = "compiled"]
    /\ UNCHANGED <<bc_vars, ms_vars, memory_map, view, bank_positions, last, n_calls, sfc_input, pc,
                   co, valid, result>>

\* compile_all_resources: a worker returns an error; print_resource_error(re)
Compile_error ==
    /\ pc = "compile_data"
    /\ \E j \in CompileJobs :
          /\ compile_jobs[j] = "compiling"
          /\ compile_jobs' = [compile_jobs EXCEPT ![j] = "error"]
    /\ valid' = FALSE
    /\ UNCHANGED <<bc_vars, ms_vars, memory_map, view, bank_positions, last, n_calls, sfc_input, pc,
                   co, result>>

\* compile_all_resources has returned: co = compile_data(...); if co is None: raise
Compile_data_returns ==
    /\ pc = "compile_data"
    /\ \A j \in CompileJobs : compile_jobs[j] \in {"compiled", "error"}
    /\ pc' = IF compile_data(valid) = "None" THEN "raised" ELSE "read_binary_file"
    /\ last' = [NoCall EXCEPT !.op = "compile_data",
                              !.outcome = IF compile_data(valid) = "None"
                                          THEN "RuntimeError" ELSE "ok"]
    /\ UNCHANGED <<bc_vars, ms_vars, memory_map, view, bank_positions, n_calls, sfc_input,
                   co, compile_jobs, valid, result>>

\* sfc_data = bytearray(read_binary_file(sfc_input, 4 * 1024 * 1024))
Read_binary_file ==
    /\ pc = "read_binary_file"
    /\ IF BufLen(sfc_input) > 4 * 1024 * 1024
       THEN /\ pc' = "raised"
            /\ last' = [NoCall EXCEPT !.op = "read_binary_file", !.outcome = "RuntimeError"]
            /\ view' = view
       ELSE /\ pc' = "insert_resources"
            /\ last' = [NoCall EXCEPT !.op = "read_binary_file"]
            /\ view' = sfc_input
    /\ UNCHANGED <<bc_vars, ms_vars, memory_map, bank_positions, n_calls, sfc_input, link_vars>>

\* insert_resources(sfc_memoryview, co.shared_input, co.data_store)
Link_insert_resources ==
    /\ pc = "insert_resources"
    /\ \E r \in { module_insert_resources(view, co, co.data_store) } :
           /\ view' = r.view
           /\ bank_positions' = r.bank_positions
           /\ last' = [NoCall EXCEPT !.op = "module_insert_resources",
                                     !.outcome = r.outcome, !.ret = r.steps]
           /\ pc' = IF r.outcome = "ok" THEN "update_checksum" ELSE "raised"
    /\ UNCHANGED <<bc_vars, ms_vars, memory_map, n_calls, sfc_input, link_vars>>

\* update_checksum(sfc_memoryview, ...); return sfc_data
Link_update_checksum ==
    /\ pc = "update_checksum"
    /\ \E r \in { update_checksum(view, memory_map) } :
           /\ view' = r.view
           /\ last' = [NoCall EXCEPT !.op = "update_checksum", !.outcome = r.outcome]
           /\ pc' = IF r.outcome = "ok" THEN "returned" ELSE "raised"
           /\ result' = IF r.outcome = "ok" THEN r.view ELSE result
    /\ UNCHANGED <<bc_vars, ms_vars, memory_map, bank_positions, n_calls, sfc_input,
                   co, compile_jobs, valid>>

NextLink ==
    \/ Compile_start
    \/ Compile_ok
    \/ Compile_error
    \/ Compile_data_returns
    \/ Read_binary_file
    \/ Link_insert_resources
    \/ Link_update_checksum

SpecLink == InitLink /\ [][NextLink]_vars

----------------------------------------------------------------------------
(* Vocabulary of the properties *)

bank_start == memory_map.mode.bank_start

Banks == 1..Len(bank_positions)

Min(S) == CHOOSE x \in S : \A y \in S : x <= y

\* banks (1-based) whose remaining capacity takes a blob of this size
BanksWithRoom(bp, size) == { i \in 1..Len(bp) : BANK_END - bp[i] >= size }

\* the address of a position of a bank (1-based)
AddressIn(i, position) == (memory_map.first_resource_bank + (i - 1)) * 65536 + position

Offset(addr) == address_to_rom_offset(memory_map.mode, addr)

\* rom offset of slot k (from 0) of the resource table of a type
SlotOffset(resource_type, k) ==
    Offset(CodeBank(memory_map) * 65536 + TableAddr16(resource_type)) + 5 * k

Slot(v, resource_type, k) ==
    Slice(v, SlotOffset(resource_type, k), SlotOffset(resource_type, k) + 5)

Slots == { <<t, k>> \in ResourceTypes \X (0..1) : k < NResourcesPerType[t + 1] }

Unchanged == view' = view /\ bank_positions' = bank_positions

----------------------------------------------------------------------------
(* C1: after any sequence of insert_blob and insert_blob_into_start_of_bank
   calls every bank cursor lies between bank_start and BANK_END, in every
   memory map mode.  The code breaks it: see RESULTS.json. *)
C1_CursorsWithinBank ==
    \A i \in Banks : bank_start <= bank_positions[i] /\ bank_positions[i] <= BANK_END

(* C2: insert_blob is strict first fit.  The blob goes to the lowest bank whose
   remaining capacity is at least its length (an exact fit included), the
   address returned is that bank's cursor before the call, only that cursor
   moves, by the blob's length, and the blob's bytes are in the image there.
   In particular a blob that still fits bank 0 lands in bank 0. *)
C2_FirstFit ==
    [][ last'.op = "insert_blob" =>
          LET size == BufLen(last'.blob)
              room == BanksWithRoom(bank_positions, size)
          IN  /\ (room = {}) <=> (last'.outcome # "ok")
              /\ room # {} =>
                   LET i == Min(room) IN
                   /\ last'.ret = AddressIn(i, bank_positions[i])
                   /\ bank_positions' = [bank_positions EXCEPT ![i] = @ + size]
                   /\ Slice(view', Offset(last'.ret), Offset(last'.ret) + size) = last'.blob
                   /\ (bank_positions[1] + size <= BANK_END => i = 1)
      ]_vars

\* two blobs that together fill bank 0 exactly are both in bank 0; bank 1 is empty
C2_Witness ==
    /\ last.op = "insert_blob"
    /\ last.outcome = "ok"
    /\ n_calls = 2
    /\ last.ret \div 65536 = memory_map.first_resource_bank
    /\ last.ret % 65536 > bank_start
    /\ Len(bank_positions) = 2
    /\ bank_positions[1] = BANK_END
    /\ bank_positions[2] = bank_start

(* C3: insert_blob_into_start_of_bank succeeds only on a bank whose cursor is
   bank_start, and then the blob is in the image at
   ((bank_offset + bank_id) << 16) + bank_start, which it returns; on a bank
   whose cursor has moved it raises and changes no cursor and no image byte. *)
C3_StartOfBank ==
    [][ (last'.op = "insert_blob_into_start_of_bank" /\ last'.bank_id + 1 \in Banks) =>
          LET b == last'.bank_id + 1
              size == BufLen(last'.blob)
          IN  /\ last'.outcome = "ok" =>
                   /\ bank_positions[b] = bank_start
                   /\ last'.ret = AddressIn(b, bank_start)
                   /\ Slice(view', Offset(last'.ret), Offset(last'.ret) + size) = last'.blob
              /\ bank_positions[b] # bank_start =>
                   /\ last'.outcome = "RuntimeError"
                   /\ Unchanged
      ]_vars

\* a call on a bank that holds data has raised
C3_Witness ==
    /\ last.op = "insert_blob_into_start_of_bank"
    /\ last.bank_id + 1 \in Banks
    /\ bank_positions[last.bank_id + 1] # bank_start
    /\ last.outcome = "RuntimeError"

(* C4: insert_blob of a blob larger than one bank, or of a blob no bank has
   room for, raises, and changes no bank cursor and no image byte. *)
C4_NoRoom ==
    [][ (/\ last'.op = "insert_blob"
         /\ \/ BufLen(last'.blob) > memory_map.mode.bank_size
            \/ BanksWithRoom(bank_positions, BufLen(last'.blob)) = {})
        => (last'.outcome # "ok" /\ Unchanged)
      ]_vars

\* a blob no larger than a bank was refused because every bank is too full
C4_Witness ==
    /\ last.op = "insert_blob"
    /\ last.outcome = "RuntimeError"
    /\ BufLen(last.blob) <= memory_map.mode.bank_size
    /\ BanksWithRoom(bank_positions, BufLen(last.blob)) = {}

(* C5: a resource table slot is written at most once.  A step changes a slot
   only if it is an insert_resources call and the slot held five zero bytes
   before, and what it then holds is not blank; and insert_resources on a type
   whose table already has its first slot patched raises and changes no slot. *)
C5_SlotsWrittenOnce ==
    [][ /\ \A s \in Slots :
             Slot(view', s[1], s[2]) # Slot(view, s[1], s[2]) =>
                /\ last'.op = "insert_resources"
                /\ Slot(view, s[1], s[2]) = BLANK_RESOURCE_ENTRY
                /\ Slot(view', s[1], s[2]) # BLANK_RESOURCE_ENTRY
        /\ (/\ last'.op = "insert_resources"
            /\ Slot(view, last'.resource_type, 0) # BLANK_RESOURCE_ENTRY)
           => /\ last'.outcome # "ok"
              /\ \A s \in Slots : Slot(view', s[1], s[2]) = Slot(view, s[1], s[2])
      ]_vars

\* a second insert_resources, with the right count, on a patched table has
\* failed on the blank check
C5_Witness ==
    /\ last.op = "insert_resources"
    /\ last.outcome = "AssertionError"
    /\ Len(last.resource_data) = NResourcesPerType[last.resource_type + 1]
    /\ BufLen(last.resource_data[1]) < 65535
    /\ Slot(view, last.resource_type, 0) # BLANK_RESOURCE_ENTRY

(* C6: insert_resources raises when the list's length differs from the count
   the image records for the type, and then no blob is placed, no cursor moves
   and no image byte changes. *)
C6_CountMismatch ==
    [][ (/\ last'.op = "insert_resources"
         /\ Len(last'.resource_data) # NResourcesPerType[last'.resource_type + 1])
        => (last'.outcome = "RuntimeError" /\ Unchanged)
      ]_vars

\* a list shorter than the recorded count has been refused
C6_Witness ==
    /\ last.op = "insert_resources"
    /\ last.outcome = "RuntimeError"
    /\ Len(last.resource_data) < NResourcesPerType[last.resource_type + 1]
    /\ Len(last.resource_data) > 0

\* the addresses first fit gives the blobs of a list, placed in list order
RECURSIVE PlacedAddrs(_, _)
PlacedAddrs(bp, data) ==
    IF data = <<>> THEN <<>>
    ELSE LET size == BufLen(Head(data))
             i == Min(BanksWithRoom(bp, size))
         IN  <<AddressIn(i, bp[i])>>
                 \o PlacedAddrs([bp EXCEPT ![i] = @ + size], Tail(data))

\* address bits 0-7, 8-15, 16-23, then the size's low and high byte
EntryBytes(addr, size) ==
    Bytes(<< addr % 256, (addr \div 256) % 256, (addr \div 65536) % 256,
             size % 256, (size \div 256) % 256 >>)

\* the image with blobs k.. of a list at their addresses and their slots filled
RECURSIVE PatchedImage(_, _, _, _, _)
PatchedImage(v, resource_type, data, addrs, k) ==
    IF k > Len(data) THEN v
    ELSE PatchedImage(
             Overlay(Overlay(v, Offset(addrs[k]), data[k]),
                     SlotOffset(resource_type, k - 1),
                     EntryBytes(addrs[k], BufLen(data[k]))),
             resource_type, data, addrs, k + 1)

(* C7: after a successful insert_resources(type, d_0 .. d_(n-1)) slot i of the
   type's table holds the three address bytes (low first) of the address where
   d_i was placed, then the low and the high byte of len(d_i); the blobs are
   placed in list order; and the image differs from the one before only in
   those n slots and in the placed blobs' ranges. *)
C7_TableEntries ==
    [][ (last'.op = "insert_resources" /\ last'.outcome = "ok") =>
          LET data == last'.resource_data
              addrs == PlacedAddrs(bank_positions, data)
          IN  /\ view' = PatchedImage(view, last'.resource_type, data, addrs, 1)
              /\ \A k \in 1..Len(data) :
                   /\ Slot(view', last'.resource_type, k - 1)
                          = EntryBytes(addrs[k], BufLen(data[k]))
                   /\ Slice(view', Offset(addrs[k]), Offset(addrs[k]) + BufLen(data[k]))
                          = data[k]
      ]_vars

\* two resources of different sizes have been inserted and their slots filled
C7_Witness ==
    /\ last.op = "insert_resources"
    /\ last.outcome = "ok"
    /\ Len(last.resource_data) = 2
    /\ BufLen(last.resource_data[1]) # BufLen(last.resource_data[2])
    /\ Slot(view, last.resource_type, 1) # BLANK_RESOURCE_ENTRY

----------------------------------------------------------------------------
(* Properties of update_checksum *)

CsHeaderOffset == address_to_rom_offset(memory_map.mode, 65500)

\* a little-endian 16 bit value of an image
U16At(v, o) == ByteAt(v, o) + 256 * ByteAt(v, o + 1)

StoredComplement(v) == U16At(v, CsHeaderOffset)

StoredChecksum(v) == U16At(v, CsHeaderOffset + 2)

ChecksumUpdated == last.op = "update_checksum" /\ last.outcome = "ok"

IsPowerOfTwo(n) == \E k \in 0..22 : n = 2 ^ k

(* C9: after update_checksum has succeeded, the 16 bit complement stored at the
   checksum header offset and the 16 bit checksum stored two bytes later add up
   to 0xFFFF and have no bit in common, whatever the image and its four header
   bytes held before; and it succeeds on every image whose length is a power of
   two and a multiple of the bank size. *)
C9_ChecksumPlusComplement ==
    /\ ChecksumUpdated =>
         /\ StoredChecksum(view) + StoredComplement(view) = 65535
         /\ \A k \in 0..15 :
              (StoredChecksum(view) \div 2 ^ k) % 2
                  # (StoredComplement(view) \div 2 ^ k) % 2
    /\ (/\ last.op = "update_checksum"
        /\ IsPowerOfTwo(BufLen(view))
        /\ BufLen(view) % memory_map.mode.bank_size = 0) => last.outcome = "ok"

\* the checksum of an image whose header held neither the placeholder nor bytes
\* adding up to 0x1FE has been updated, and neither of its bytes is 0 or 0xFF
C9_Witness ==
    /\ ChecksumUpdated
    /\ BufSum(Slice(sfc_input, CsHeaderOffset, CsHeaderOffset + 4)) # 510
    /\ StoredChecksum(view) % 256 \notin {0, 255}
    /\ StoredChecksum(view) \div 256 \notin {0, 255}

(* C10: after update_checksum has succeeded the stored checksum is the sum of
   all bytes of the resulting image, its own four header bytes included,
   modulo 2^16; and the resulting image differs from the input image in the
   four bytes at the checksum header offset only. *)
C10_ChecksumIsByteSum ==
    ChecksumUpdated =>
        /\ StoredChecksum(view) = BufSum(view) % 65536
        /\ BufLen(view) = BufLen(sfc_input)
        /\ TakeBytes(view, CsHeaderOffset) = TakeBytes(sfc_input, CsHeaderOffset)
        /\ DropBytes(view, CsHeaderOffset + 4) = DropBytes(sfc_input, CsHeaderOffset + 4)

\* the four header bytes of an image have been rewritten, the old ones adding up
\* to something else than 0x1FE
C10_Witness ==
    /\ ChecksumUpdated
    /\ n_calls = 1
    /\ view # sfc_input
    /\ BufSum(Slice(sfc_input, CsHeaderOffset, CsHeaderOffset + 4)) = 0

----------------------------------------------------------------------------
(* insert_resources_into_binary *)

AllCompiled == \A j \in CompileJobs : compile_jobs[j] = "compiled"

AnyCompileError == \E j \in CompileJobs : compile_jobs[j] = "error"

\* image holds everything the link inserts: every table slot filled, the data of
\* the data store in place, the usb2snes flag cleared, and a checksum that matches
FullyPatched(image) ==
    /\ \A s \in Slots : Slot(image, s[1], s[2]) # BLANK_RESOURCE_ENTRY
    /\ Slice(image, Offset(Symbols(memory_map).EntityRomData),
             Offset(Symbols(memory_map).EntityRomData)
                 + BufLen(co.data_store.entity_rom_data))
           = co.data_store.entity_rom_data
    /\ Slice(image, Offset(AddressIn(MS_FS_DATA_BANK_OFFSET + 1, bank_start)),
             Offset(AddressIn(MS_FS_DATA_BANK_OFFSET + 1, bank_start))
                 + BufLen(co.data_store.msfs_data))
           = co.data_store.msfs_data
    /\ ByteAt(image, Offset(Symbols(memory_map).UseResourcesOverUsb2Snes)) = 0
    /\ StoredChecksum(image) = BufSum(image) % 65536
    /\ StoredChecksum(image) + StoredComplement(image) = 65535

(* C8: insert_resources_into_binary compiles everything, then links.  The image
   is not read, and nothing of it changes, before every resource has been
   compiled; once a resource has reported an error the image is never read and
   the call raises without returning one; and an image is returned only by a
   successful update_checksum that follows an insert_resources that completed
   all of its steps, so the image returned is the fully patched one. *)
C8_CompileAllThenLink ==
    [][ /\ view' # view => AllCompiled /\ pc # "compile_data"
        /\ AnyCompileError' =>
              /\ view' = <<>>
              /\ result' = "none"
              /\ pc' \in {"compile_data", "raised"}
        /\ pc' # "returned" => result' = "none"
        /\ result' # result =>
              /\ pc = "update_checksum" /\ pc' = "returned"
              /\ last.op = "module_insert_resources"
              /\ last.outcome = "ok" /\ last.ret = 9
              /\ last'.op = "update_checksum" /\ last'.outcome = "ok"
              /\ result' = view'
              /\ FullyPatched(result') ]_vars

\* an image has been returned: every resource compiled, and the image patched
C8_Witness ==
    /\ pc = "returned"
    /\ AllCompiled
    /\ result = view
    /\ result # sfc_input
    /\ FullyPatched(result)

----------------------------------------------------------------------------
(* update_checksum, continued *)

(* C11: update_checksum is idempotent.  A call that follows a successful call
   succeeds and leaves the image exactly as the first call left it, whatever
   the four header bytes held before the first call. *)
C11_ChecksumIdempotent ==
    [][ (ChecksumUpdated /\ last'.op = "update_checksum") =>
            (last'.outcome = "ok" /\ view' = view) ]_vars

\* update_checksum has run twice on an image whose header the first call rewrote
C11_Witness ==
    /\ ChecksumUpdated
    /\ n_calls = 2
    /\ view # sfc_input
    /\ Slice(sfc_input, CsHeaderOffset, CsHeaderOffset + 4) = Bytes(<<18, 52, 86, 120>>)

(* C12: on an image whose length is not a multiple of the bank size, or is not
   a power of two (zero included), update_checksum raises and the image keeps
   every byte. *)
C12_BadSizeRefused ==
    (/\ last.op = "update_checksum"
     /\ \/ BufLen(sfc_input) % memory_map.mode.bank_size # 0
        \/ ~IsPowerOfTwo(BufLen(sfc_input)))
        => (last.outcome = "RuntimeError" /\ view = sfc_input)

\* update_checksum has refused an image of three banks
C12_Witness ==
    /\ last.op = "update_checksum"
    /\ last.outcome = "RuntimeError"
    /\ BufLen(sfc_input) = 3 * memory_map.mode.bank_size
    /\ view = sfc_input

----------------------------------------------------------------------------
(* tools/convert_metasprite.py: class Tileset                              *)
(*                                                                         *)
(* A tile is its pixel buffer after palette mapping, one palette index per *)
(* pixel in row-major order: 64 pixels for an 8x8 tile, 256 for a 16x16    *)
(* tile.  The tile functions of _snes are written from their contract.     *)

\* number of add_or_get_* calls made on one Tileset
MaxInterns == 3

None == <<>>

SMALL_TILE_LEN == 64

LARGE_TILE_LEN == 256

\* the mirror image of a row-major w x w pixel buffer, left to right
hflip_pixels(tile, w) ==
    [i \in 1..(w * w) |-> tile[((i - 1) \div w) * w + (w - 1 - ((i - 1) % w)) + 1]]

\* the mirror image of a row-major w x w pixel buffer, top to bottom
vflip_pixels(tile, w) ==
    [i \in 1..(w * w) |-> tile[(w - 1 - ((i - 1) \div w)) * w + ((i - 1) % w) + 1]]

hflip_tile(tile) == hflip_pixels(tile, 8)

vflip_tile(tile) == vflip_pixels(tile, 8)

hflip_large_tile(tile) == hflip_pixels(tile, 16)

vflip_large_tile(tile) == vflip_pixels(tile, 16)

\* the 8x8 tile whose top-left pixel is pixel (x0, y0) of a 16x16 tile
small_tile_of_large(tile, x0, y0) ==
    [i \in 1..SMALL_TILE_LEN |-> tile[(y0 + ((i - 1) \div 8)) * 16 + x0 + ((i - 1) % 8) + 1]]

\* top-left, top-right, bottom-left, bottom-right
split_large_tile(tile) ==
    << small_tile_of_large(tile, 0, 0), small_tile_of_large(tile, 8, 0),
       small_tile_of_large(tile, 0, 8), small_tile_of_large(tile, 8, 8) >>

\* Tileset.__init__
NewTileset(starting_tile, end_tile) ==
    [ starting_tile     |-> starting_tile,
      max_tiles         |-> end_tile - starting_tile,
      tiles             |-> [i \in 1..32 |-> None],
      large_tile_pos    |-> 0,
      small_tile_pos    |-> 4,
      small_tile_offset |-> 0,
      small_tiles_map   |-> <<>>,
      large_tiles_map   |-> <<>> ]

\* the arguments Tileset.__init__ accepts
tileset_range_ok(starting_tile, end_tile) ==
    /\ starting_tile < 512
    /\ end_tile <= 512
    /\ starting_tile < end_tile
    /\ starting_tile % 16 = 0

\* tiles[pos] = tile_data, for a 0-based pos
StoreTile(tiles, pos, tile_data) == [tiles EXCEPT ![pos + 1] = tile_data]

\* faulty variant: the next row of large tiles is not skipped
_allocate_large_tile_in_next_row(self) ==
    [ self |-> [self EXCEPT !.large_tile_pos = self.large_tile_pos + 2,
                            !.tiles = IF (self.large_tile_pos + 2) % 16 = 0
                                        THEN @ \o [i \in 1..32 |-> None] ELSE @],
      ret  |-> self.large_tile_pos ]

_allocate_large_tile(self) ==
    LET tile_pos == self.large_tile_pos
        wraps    == (tile_pos + 2) % 16 = 0
    IN  [ self |-> [self EXCEPT
                      !.large_tile_pos = IF wraps THEN tile_pos + 2 + 16 ELSE tile_pos + 2,
                      !.tiles = IF wraps THEN @ \o [i \in 1..32 |-> None] ELSE @],
          ret  |-> tile_pos ]

_SMALL_TILE_OFFSETS == <<0, 1, 16, 17>>

_allocate_small_tile(self) ==
    \* a 2x2 cell of small tiles is taken from the large tiles when the last is full
    LET a  == IF self.small_tile_pos >= 4
                THEN TheValue({ [r.self EXCEPT !.small_tile_pos = 0,
                                               !.small_tile_offset = r.ret]
                                 : r \in { _allocate_large_tile(self) } })
                ELSE self
    IN  [ self |-> [a EXCEPT !.small_tile_pos = @ + 1],
          ret  |-> a.small_tile_offset + _SMALL_TILE_OFFSETS[a.small_tile_pos + 1] ]

add_small_tile(self, tile_data) ==
    IF Len(tile_data) # SMALL_TILE_LEN
      THEN [self |-> self, ret |-> -1, outcome |-> "AssertionError"]
      ELSE TheValue({ [ self    |-> [r.self EXCEPT !.tiles = StoreTile(@, r.ret, tile_data)],
                        ret     |-> r.ret + self.starting_tile,
                        outcome |-> "ok" ]
                      : r \in { _allocate_small_tile(self) } })

add_large_tile(self, tile_data) ==
    IF Len(tile_data) # LARGE_TILE_LEN
      THEN [self |-> self, ret |-> -1, outcome |-> "AssertionError"]
      ELSE TheValue({ [ self    |-> [r.self EXCEPT !.tiles =
                                        LET t == split_large_tile(tile_data)
                                        IN  StoreTile(StoreTile(StoreTile(StoreTile(@,
                                                r.ret, t[1]), r.ret + 1, t[2]),
                                                r.ret + 16, t[3]), r.ret + 17, t[4])],
                        ret     |-> r.ret + self.starting_tile,
                        outcome |-> "ok" ]
                      : r \in { _allocate_large_tile(self) } })

\* faulty variant: the lookup never finds the tile
tiles_map_get_nothing(tiles_map, tile_data) == None

\* dict.get(tile_data)
tiles_map_get(tiles_map, tile_data) ==
    IF tile_data \in DOMAIN tiles_map THEN tiles_map[tile_data] ELSE None

\* tiles_map[tile_data] = match
tiles_map_set(tiles_map, tile_data, match) ==
    [k \in DOMAIN tiles_map \cup {tile_data} |->
        IF k = tile_data THEN match ELSE tiles_map[k]]

\* faulty variant: a later registration replaces an earlier one (last writer wins)
tiles_map_overwrite(tiles_map, tile_data, match) ==
    [k \in DOMAIN tiles_map \cup {tile_data} |->
        IF k = tile_data THEN match ELSE tiles_map[k]]

\* dict.setdefault(tile_data, match)
tiles_map_setdefault(tiles_map, tile_data, match) ==
    IF tile_data \in DOMAIN tiles_map THEN tiles_map
                                      ELSE tiles_map_set(tiles_map, tile_data, match)

\* the tile and its three flipped derivatives, registered under one tile id
register_tile(tiles_map, tile_data, tile_id, h_tile, v_tile, hv_tile) ==
    tiles_map_setdefault(
        tiles_map_setdefault(
            tiles_map_setdefault(
                tiles_map_set(tiles_map, tile_data, <<tile_id, FALSE, FALSE>>),
                h_tile, <<tile_id, TRUE, FALSE>>),
            v_tile, <<tile_id, FALSE, TRUE>>),
        hv_tile, <<tile_id, TRUE, TRUE>>)

add_or_get_small_tile(self, tile_data) ==
    IF Len(tile_data) # SMALL_TILE_LEN
      THEN [self |-> self, ret |-> None, outcome |-> "AssertionError"]
      ELSE
    LET match == tiles_map_get(self.small_tiles_map, tile_data)
    IN  IF match # None
          THEN [self |-> self, ret |-> match, outcome |-> "ok"]
          ELSE TheValue({
                 IF r.outcome # "ok"
                   THEN [self |-> self, ret |-> None, outcome |-> r.outcome]
                   ELSE [ self |-> [r.self EXCEPT !.small_tiles_map =
                                      register_tile(@, tile_data, r.ret,
                                          hflip_tile(tile_data), vflip_tile(tile_data),
                                          vflip_tile(hflip_tile(tile_data)))],
                          ret  |-> <<r.ret, FALSE, FALSE>>,
                          outcome |-> "ok" ]
                 : r \in { add_small_tile(self, tile_data) } })

add_or_get_large_tile(self, tile_data) ==
    LET match == tiles_map_get(self.large_tiles_map, tile_data)
    IN  IF match # None
          THEN [self |-> self, ret |-> match, outcome |-> "ok"]
          ELSE TheValue({
                 IF r.outcome # "ok"
                   THEN [self |-> self, ret |-> None, outcome |-> r.outcome]
                   ELSE [ self |-> [r.self EXCEPT !.large_tiles_map =
                                      register_tile(@, tile_data, r.ret,
                                          hflip_large_tile(tile_data),
                                          vflip_large_tile(tile_data),
                                          vflip_large_tile(hflip_large_tile(tile_data)))],
                          ret  |-> <<r.ret, FALSE, FALSE>>,
                          outcome |-> "ok" ]
                 : r \in { add_large_tile(self, tile_data) } })

\* index of the last slot of tiles that holds a tile, 0 when none does
last_used_slot(tiles) ==
    LET used == { i \in 0..(Len(tiles) - 1) : tiles[i + 1] # None }
    IN  IF used = {} THEN 0 ELSE CHOOSE i \in used : \A j \in used : j <= i

get_tiles(self) ==
    LET blank_tile == [i \in 1..SMALL_TILE_LEN |-> 0]
        n_tiles    == last_used_slot(self.tiles) + 1
    IN  IF n_tiles > self.max_tiles
          THEN [ret |-> None, outcome |-> "ValueError"]
          ELSE [ret |-> [i \in 1..n_tiles |->
                            IF self.tiles[i] = None THEN blank_tile ELSE self.tiles[i]],
                outcome |-> "ok"]

(* Tiles interned in the model: each quarter of a tile is of one colour,   *)
(* <<top-left, top-right, bottom-left, bottom-right>>.  The set holds      *)
(* tiles that differ from all their mirror images, tiles that are their    *)
(* own mirror image, and tiles whose mirror images coincide.               *)

quartered_tile(q, w) ==
    [i \in 1..(w * w) |->
        q[2 * (((i - 1) \div w) \div (w \div 2)) + (((i - 1) % w) \div (w \div 2)) + 1]]

SmallQuarters ==
    { <<1, 2, 3, 4>>, <<2, 1, 4, 3>>, <<3, 4, 1, 2>>, <<4, 3, 2, 1>>,
      <<1, 2, 2, 1>>, <<2, 1, 1, 2>>,
      <<1, 1, 2, 2>>, <<2, 2, 1, 1>>,
      <<1, 1, 1, 1>> }

LargeQuarters ==
    { <<1, 2, 3, 4>>, <<3, 4, 1, 2>>, <<1, 2, 2, 1>>, <<2, 1, 1, 2>> }

SmallTiles == { quartered_tile(q, 8) : q \in SmallQuarters }

LargeTiles == { quartered_tile(q, 16) : q \in LargeQuarters }

\* (starting_tile, end_tile) of the spritesheets
TilesetRanges == { <<0, 512>>, <<16, 48>> }

\* the variables of the linker, when it is not what runs
NotInserting ==
    /\ memory_map = <<>>
    /\ view = <<>>
    /\ bank_positions = <<>>
    /\ last = NoCall
    /\ n_calls = 0
    /\ sfc_input = <<>>
    /\ NotLinking

InitTileset ==
    /\ \E range \in TilesetRanges :
          /\ tileset_range_ok(range[1], range[2])
          /\ tileset = NewTileset(range[1], range[2])
    /\ ms_calls = <<>>
    /\ ms_input = <<>>
    /\ pc = "tileset"
    /\ NotInserting
    /\ NotAssembling

\* a method of the Tileset has returned r
TilesetReturned(r, op, tile_data) ==
    /\ tileset' = r.self
    /\ ms_calls' = Append(ms_calls, [op |-> op, tile_data |-> tile_data,
                                     ret |-> r.ret, outcome |-> r.outcome,
                                     added |-> r.self # tileset])
    /\ UNCHANGED <<bc_vars, memory_map, view, bank_positions, last, n_calls, sfc_input, pc,
                   link_vars, ms_input>>

Call_add_or_get_small_tile ==
    /\ pc = "tileset"
    /\ Len(ms_calls) < MaxInterns
    /\ \E tile_data \in SmallTiles :
          \E r \in { add_or_get_small_tile(tileset, tile_data) } :
             TilesetReturned(r, "add_or_get_small_tile", tile_data)

Call_add_or_get_large_tile ==
    /\ pc = "tileset"
    /\ Len(ms_calls) < MaxInterns
    /\ \E tile_data \in LargeTiles :
          \E r \in { add_or_get_large_tile(tileset, tile_data) } :
             TilesetReturned(r, "add_or_get_large_tile", tile_data)

NextTileset ==
    \/ Call_add_or_get_small_tile
    \/ Call_add_or_get_large_tile

SpecTileset == InitTileset /\ [][NextTileset]_vars

----------------------------------------------------------------------------
(* Claims about the Tileset *)

\* the calls made before the last one that interned the content of the last one
EarlierInterns(calls) ==
    { i \in 1..(Len(calls) - 1) : /\ calls[i].op = calls[Len(calls)].op
                                  /\ calls[i].tile_data = calls[Len(calls)].tile_data }

\* C13: interning a buffer whose content was interned before returns the
\* (id, hflip, vflip) triple the first interning of that content returned and
\* leaves the Tileset as it was: no slot allocated, the same backing store
\* length, the same allocation cursors and the same two tile maps.
C13_InternAgain ==
    [][ EarlierInterns(ms_calls') # {} =>
           /\ \A i \in EarlierInterns(ms_calls') :
                 ms_calls'[Len(ms_calls')].ret = ms_calls'[i].ret
           /\ ms_calls'[Len(ms_calls')].outcome = "ok"
           /\ ~ms_calls'[Len(ms_calls')].added
           /\ tileset' = tileset ]_vars

\* a small and a large tile were interned, then the second of them again
C13_Witness ==
    /\ Len(ms_calls) = 3
    /\ EarlierInterns(ms_calls) # {}
    /\ ms_calls[1].added /\ ms_calls[2].added
    /\ ms_calls[1].op # ms_calls[2].op
    /\ ms_calls[3].ret[1] = ms_calls[2].ret[1]

HFlipOf(call) ==
    IF call.op = "add_or_get_small_tile" THEN hflip_tile(call.tile_data)
                                         ELSE hflip_large_tile(call.tile_data)

VFlipOf(call) ==
    IF call.op = "add_or_get_small_tile" THEN vflip_tile(call.tile_data)
                                         ELSE vflip_large_tile(call.tile_data)

HVFlipOf(call) ==
    IF call.op = "add_or_get_small_tile" THEN vflip_tile(hflip_tile(call.tile_data))
                                         ELSE vflip_large_tile(hflip_large_tile(call.tile_data))

\* the calls before the last one that interned a tile for the first time, in
\* the tile map the last call used
FirstInterns(calls) ==
    { i \in 1..(Len(calls) - 1) : calls[i].added /\ calls[i].op = calls[Len(calls)].op }

\* content x was registered by a tile first interned before call i
RegisteredByEarlierTile(calls, i, x) ==
    \E j \in 1..(i - 1) :
        /\ calls[j].added /\ calls[j].op = calls[i].op
        /\ x \in { calls[j].tile_data, HFlipOf(calls[j]), VFlipOf(calls[j]), HVFlipOf(calls[j]) }

\* the tile map the call looked its tile up in
TilesMapOf(self, call) ==
    IF call.op = "add_or_get_small_tile" THEN self.small_tiles_map ELSE self.large_tiles_map

\* the last call found its tile registered and returned the registration unchanged
ReturnedRegistration(self, call) ==
    /\ call.tile_data \in DOMAIN TilesMapOf(self, call)
    /\ call.ret = TilesMapOf(self, call)[call.tile_data]
    /\ call.outcome = "ok"
    /\ ~call.added

\* C14 as stated: after T is first interned with id t, interning hflip(T),
\* vflip(T) or hflip(vflip(T)) returns id t with flags (True, False),
\* (False, True), (True, True) and allocates nothing, unless the variant was
\* registered by an earlier tile or equals T, and then the earlier registration
\* is returned unchanged.
C14_FlipFlagsAsStated ==
    [][ \A i \in FirstInterns(ms_calls') :
          LET calls == ms_calls'
              x     == calls[Len(calls)].tile_data
              ret   == calls[Len(calls)].ret
              T     == calls[i].tile_data
              t     == calls[i].ret[1]
              other == x = T \/ RegisteredByEarlierTile(calls, i, x)
          IN  x \in { T, HFlipOf(calls[i]), VFlipOf(calls[i]), HVFlipOf(calls[i]) } =>
                /\ ReturnedRegistration(tileset, calls[Len(calls)])
                /\ tileset' = tileset
                /\ x = T => ret = <<t, FALSE, FALSE>>
                /\ (x = HFlipOf(calls[i]) /\ ~other) => ret = <<t, TRUE, FALSE>>
                /\ (x = VFlipOf(calls[i]) /\ ~other) => ret = <<t, FALSE, TRUE>>
                /\ (x = HVFlipOf(calls[i]) /\ ~other) => ret = <<t, TRUE, TRUE>> ]_vars

\* C14: after T is first interned with id t, interning hflip(T), vflip(T) or
\* hflip(vflip(T)) returns id t with flags (True, False), (False, True),
\* (True, True) and allocates nothing, unless the variant was registered by
\* an earlier tile, equals T, or equals a variant of T registered before it
\* (hflip(T) before vflip(T) before hflip(vflip(T))); then the earlier
\* registration is returned unchanged.  Interning T again returns
\* (t, False, False).
C14_FlipFlags ==
    [][ \A i \in FirstInterns(ms_calls') :
          LET calls == ms_calls'
              x     == calls[Len(calls)].tile_data
              ret   == calls[Len(calls)].ret
              T     == calls[i].tile_data
              t     == calls[i].ret[1]
              other == x = T \/ RegisteredByEarlierTile(calls, i, x)
          IN  x \in { T, HFlipOf(calls[i]), VFlipOf(calls[i]), HVFlipOf(calls[i]) } =>
                /\ ReturnedRegistration(tileset, calls[Len(calls)])
                /\ tileset' = tileset
                /\ x = T => ret = <<t, FALSE, FALSE>>
                /\ (x = HFlipOf(calls[i]) /\ ~other) => ret = <<t, TRUE, FALSE>>
                /\ (x = VFlipOf(calls[i]) /\ ~other /\ x # HFlipOf(calls[i]))
                      => ret = <<t, FALSE, TRUE>>
                /\ (x = HVFlipOf(calls[i]) /\ ~other /\ x # HFlipOf(calls[i])
                                           /\ x # VFlipOf(calls[i]))
                      => ret = <<t, TRUE, TRUE>> ]_vars

\* a tile whose two mirror images coincide was interned, then its vertical
\* mirror image, which came back as the horizontal one
C14_Witness ==
    /\ Len(ms_calls) = 2
    /\ ms_calls[1].added
    /\ ms_calls[2].op = ms_calls[1].op
    /\ ms_calls[2].tile_data = VFlipOf(ms_calls[1])
    /\ ms_calls[2].tile_data = HFlipOf(ms_calls[1])
    /\ ms_calls[2].tile_data # ms_calls[1].tile_data
    /\ ms_calls[2].ret = <<ms_calls[1].ret[1], TRUE, FALSE>>

----------------------------------------------------------------------------
(* tools/convert_metasprite.py: add_i8aabb, extract_frame                  *)
(*                                                                         *)
(* A record under construction (bytearray) is the sequence of its bytes.   *)

i8_cast(i) == IF i < 0 THEN 256 + i ELSE i

NO_AABB_VALUE == 128

\* bytearray.extend(values): all the values are bytes, or nothing is appended
bytearray_extend(data, values) ==
    IF \A k \in 1..Len(values) : values[k] \in 0..255
      THEN [data |-> data \o values, outcome |-> "ok"]
      ELSE [data |-> data, outcome |-> "ValueError"]

\* faulty variant: the reserved value is not looked for
x1_is_reserved_never(x1) == FALSE

x1_is_reserved(x1) == x1 = NO_AABB_VALUE

add_i8aabb(data, box, fs) ==
    IF box = None
      THEN bytearray_extend(data, <<NO_AABB_VALUE, NO_AABB_VALUE, NO_AABB_VALUE, NO_AABB_VALUE>>)
      ELSE
    IF box.x < 0 \/ box.y < 0 \/ box.width <= 0 \/ box.height <= 0
      THEN [data |-> data, outcome |-> "ValueError"]
      ELSE
    IF box.x + box.width > fs.frame_width \/ box.y + box.height > fs.frame_height
      THEN [data |-> data, outcome |-> "ValueError"]
      ELSE
    LET x1 == i8_cast(box.x - fs.x_origin)
        x2 == i8_cast(box.x + box.width - fs.x_origin)
        y1 == i8_cast(box.y - fs.y_origin)
        y2 == i8_cast(box.y + box.height - fs.y_origin)
    IN  IF x1_is_reserved(x1)
          THEN [data |-> data, outcome |-> "ValueError"]
          ELSE bytearray_extend(data, <<x1, x2, y1, y2>>)

(* The image is held as the colour of each 16x16 block of pixels: a tile   *)
(* extracted at an object's position is of one colour.  The image and      *)
(* palette functions of _snes are written from their contract.             *)

extract_small_tile(image, x, y) == [i \in 1..SMALL_TILE_LEN |-> image[<<x, y>>]]

extract_large_tile(image, x, y) == [i \in 1..LARGE_TILE_LEN |-> image[<<x, y>>]]

\* the first palette that holds every colour of the tile, None when none does
get_palette_id(tile, palettes_map) ==
    LET holding == { p \in 1..Len(palettes_map) :
                        \A i \in 1..Len(tile) : tile[i] \in DOMAIN palettes_map[p] }
    IN  IF holding = {} THEN None
        ELSE TheValue({ [palette_id |-> p - 1, pal_map |-> palettes_map[p]]
                        : p \in { CHOOSE p \in holding : \A q \in holding : p <= q } })

\* the two bytes of an object: tile id, then palette, order and flip bits
object_bytes(tile_id, palette_id, order, hflip, vflip) ==
    << tile_id % 256,
       (tile_id \div 256) + (palette_id % 8) * 2 + (order % 4) * 16
           + (IF hflip THEN 64 ELSE 0) + (IF vflip THEN 128 ELSE 0) >>

\* assert tile_id < 512
tile_id_ok(tile_id) == tile_id < 512

\* one pass of the loop over pattern.objects
extract_frame_object(st, o, image, palettes_map, fs, frame_x, frame_y) ==
    IF o.xpos < 0 \/ o.xpos > fs.frame_width \/ o.ypos < 0 \/ o.ypos > fs.frame_height
      THEN [st EXCEPT !.objects_outside_frame = TRUE]
      ELSE
    LET tile == IF o.size = 8 THEN extract_small_tile(image, frame_x + o.xpos, frame_y + o.ypos)
                              ELSE extract_large_tile(image, frame_x + o.xpos, frame_y + o.ypos)
        pal  == get_palette_id(tile, palettes_map)
    IN  IF pal = None
          THEN [st EXCEPT !.tiles_with_no_palettes = TRUE,
                          !.data = @ \o object_bytes(0, 0, fs.order, FALSE, FALSE)]
          ELSE TheValue({
                 IF r.outcome # "ok" THEN [st EXCEPT !.outcome = r.outcome]
                 ELSE IF ~tile_id_ok(r.ret[1])
                   THEN [st EXCEPT !.self = r.self, !.outcome = "AssertionError"]
                   ELSE [st EXCEPT !.self = r.self,
                                   !.data = @ \o object_bytes(r.ret[1], pal.palette_id,
                                                              fs.order, r.ret[2], r.ret[3])]
                 : r \in { IF o.size = 8
                             THEN add_or_get_small_tile(st.self,
                                      [i \in 1..SMALL_TILE_LEN |-> pal.pal_map[tile[i]]])
                             ELSE add_or_get_large_tile(st.self,
                                      [i \in 1..LARGE_TILE_LEN |-> pal.pal_map[tile[i]]]) } })

RECURSIVE extract_frame_objects(_, _, _, _, _, _, _, _)
\* the loop over pattern.objects, from object k on
extract_frame_objects(k, st, objects, image, palettes_map, fs, frame_x, frame_y) ==
    IF k > Len(objects) \/ st.outcome # "ok" THEN st
    ELSE TheValue({ extract_frame_objects(k + 1, next, objects, image, palettes_map,
                                          fs, frame_x, frame_y)
                    : next \in { extract_frame_object(st, objects[k], image, palettes_map,
                                                      fs, frame_x, frame_y) } })

extract_frame(image, pattern, palettes_map, self, fs, frame_x, frame_y, x_offset, y_offset, hitbox, hurtbox) ==
    IF x_offset < 0 \/ x_offset >= fs.frame_width \/ y_offset < 0 \/ y_offset >= fs.frame_height
      THEN [self |-> self, ret |-> None, outcome |-> "FrameError"]
      ELSE
    LET hit == add_i8aabb(<<>>, hitbox, fs)
    IN  IF hit.outcome # "ok" THEN [self |-> self, ret |-> None, outcome |-> hit.outcome]
        ELSE
    LET hurt == add_i8aabb(hit.data, hurtbox, fs)
    IN  IF hurt.outcome # "ok" THEN [self |-> self, ret |-> None, outcome |-> hurt.outcome]
        ELSE
    LET header == bytearray_extend(hurt.data, <<pattern.id, x_offset, y_offset>>)
    IN  IF header.outcome # "ok" THEN [self |-> self, ret |-> None, outcome |-> header.outcome]
        ELSE TheValue({
               IF st.outcome # "ok"
                 THEN [self |-> st.self, ret |-> None, outcome |-> st.outcome]
               ELSE IF st.objects_outside_frame \/ st.tiles_with_no_palettes
                 THEN [self |-> st.self, ret |-> None, outcome |-> "FrameError"]
                 ELSE [self |-> st.self, ret |-> st.data, outcome |-> "ok"]
               : st \in { extract_frame_objects(1,
                             [self |-> self, data |-> header.data, outcome |-> "ok",
                              objects_outside_frame |-> FALSE,
                              tiles_with_no_palettes |-> FALSE],
                             pattern.objects, image, palettes_map, fs, frame_x, frame_y) } })

\* number of frames extracted into one Tileset
MaxFrames == 2

\* the frameset of the frames: 64x32 pixel frames
FramesetOfFrames ==
    [frame_width |-> 64, frame_height |-> 32, x_origin |-> 8, y_origin |-> 8, order |-> 2]

\* two palettes of 16 colours: colour 100 + i and colour 200 + i are index i
PalettesMap ==
    << [c \in 100..115 |-> c - 100], [c \in 200..215 |-> c - 200] >>

\* object k of a frame lies in the k-th 16x16 block of a row of four
ObjectX(k) == 16 * ((k - 1) % 4)

ObjectY(k) == 16 * ((k - 1) \div 4)

\* a frame of objects of the given sizes, object k showing colour colours[k]
Frame(id, sizes, colours, hitbox) ==
    [ pattern |-> [id |-> id,
                   objects |-> [k \in 1..Len(sizes) |->
                                   [xpos |-> ObjectX(k), ypos |-> ObjectY(k), size |-> sizes[k]]]],
      image   |-> [pos \in { <<ObjectX(k), ObjectY(k)>> : k \in 1..Len(sizes) } |->
                      colours[CHOOSE k \in 1..Len(sizes) : pos = <<ObjectX(k), ObjectY(k)>>]],
      hitbox  |-> hitbox,
      hurtbox |-> None ]

Frames ==
    { Frame(0, <<8>>, <<101>>, None),
      Frame(1, <<16>>, <<201>>, [x |-> 0, y |-> 0, width |-> 16, height |-> 16]),
      Frame(2, <<16, 16, 16, 16, 16>>, <<101, 102, 103, 104, 105>>, None),
      Frame(3, <<16, 16, 16, 16>>, <<106, 107, 108, 109>>, None),
      Frame(4, <<8, 16>>, <<110, 999>>, None) }

\* Tileset ranges of the spritesheets, the last row of tiles among them
FrameTilesetRanges == { <<0, 512>>, <<16, 32>>, <<496, 512>> }

InitFrames ==
    /\ \E range \in FrameTilesetRanges :
          /\ tileset_range_ok(range[1], range[2])
          /\ tileset = NewTileset(range[1], range[2])
    /\ ms_calls = <<>>
    /\ ms_input = <<>>
    /\ pc = "frames"
    /\ NotInserting
    /\ NotAssembling

Call_extract_frame ==
    /\ pc = "frames"
    /\ Len(ms_calls) < MaxFrames
    /\ \E frame \in Frames :
          \E r \in { extract_frame(frame.image, frame.pattern, PalettesMap, tileset,
                                   FramesetOfFrames, 0, 0, 8, 8,
                                   frame.hitbox, frame.hurtbox) } :
             /\ tileset' = r.self
             /\ ms_calls' = Append(ms_calls, [op |-> "extract_frame", frame |-> frame.pattern.id,
                                              ret |-> r.ret, outcome |-> r.outcome])
    /\ UNCHANGED <<bc_vars, memory_map, view, bank_positions, last, n_calls, sfc_input, pc,
                   link_vars, ms_input>>

\* the final flush of the spritesheet's tiles
Call_get_tiles ==
    /\ pc = "frames"
    /\ \E r \in { get_tiles(tileset) } :
          ms_calls' = Append(ms_calls, [op |-> "get_tiles", frame |-> -1,
                                        ret |-> r.ret, outcome |-> r.outcome])
    /\ pc' = "flushed"
    /\ UNCHANGED <<bc_vars, memory_map, view, bank_positions, last, n_calls, sfc_input,
                   link_vars, tileset, ms_input>>

NextFrames ==
    \/ Call_extract_frame
    \/ Call_get_tiles

SpecFrames == InitFrames /\ [][NextFrames]_vars

\* C15: the tile limit is raised at the final flush, not at intern time: no
\* extract_frame that interns a tile fails because of the tiles already
\* stored, whatever the range of the Tileset and the number of tiles.
C15_NoFailureAtIntern ==
    \A i \in 1..Len(ms_calls) :
        ms_calls[i].op = "extract_frame" => ms_calls[i].outcome # "AssertionError"

----------------------------------------------------------------------------
(* tools/convert_metasprite.py: generate_pattern_grids, test_pattern_grid, *)
(* find_best_pattern                                                       *)

\* width of the images searched, in 8x8 cells
MaxGridWidth == 3

SetMin(S) == CHOOSE x \in S : \A y \in S : x <= y

SetMax(S) == CHOOSE x \in S : \A y \in S : y <= x

\* the bounding box of the objects of pattern p, in pixels
pattern_bounds(p) ==
    [ obj_min_x |-> SetMin({ p.objects[k].xpos : k \in 1..Len(p.objects) }),
      obj_min_y |-> SetMin({ p.objects[k].ypos : k \in 1..Len(p.objects) }),
      obj_max_x |-> SetMax({ p.objects[k].xpos + p.objects[k].size : k \in 1..Len(p.objects) }),
      obj_max_y |-> SetMax({ p.objects[k].ypos + p.objects[k].size : k \in 1..Len(p.objects) }) ]

\* a pattern that is not on the 8 pixel grid is left out of the catalogue
pattern_is_aligned(p) ==
    LET b == pattern_bounds(p)
    IN  b.obj_min_x % 8 = 0 /\ b.obj_min_y % 8 = 0 /\ b.obj_max_x % 8 = 0 /\ b.obj_max_y % 8 = 0

\* range(o.size // 8) x range(o.size // 8)
object_cells(o) == (0..((o.size \div 8) - 1)) \X (0..((o.size \div 8) - 1))

\* the indexes of data that the objects of p set, as the code computes them
pattern_data_indexes(p, width) ==
    UNION { { (p.objects[k].xpos \div 8) + ((p.objects[k].ypos \div 8) * width)
                  + c[1] + c[2] * width : c \in object_cells(p.objects[k]) }
            : k \in 1..Len(p.objects) }

\* the PatternGrid of one aligned pattern; data[i] = True with a list index i
\* that is negative counts from the end of data, one outside data is an IndexError
pattern_grid(p) ==
    LET b       == pattern_bounds(p)
        width   == (b.obj_max_x - b.obj_min_x) \div 8
        height  == (b.obj_max_y - b.obj_min_y) \div 8
        n       == width * height
        indexes == pattern_data_indexes(p, width)
    IN  [ tile_count |-> Cardinality(UNION { { <<k, c>> : c \in object_cells(p.objects[k]) }
                                                 : k \in 1..Len(p.objects) }),
          width      |-> width,
          height     |-> height,
          data       |-> [i \in 1..n |-> (i - 1) \in indexes \/ (i - 1 - n) \in indexes],
          pattern    |-> p,
          outcome    |-> IF \A i \in indexes : -n <= i /\ i < n THEN "ok" ELSE "IndexError" ]

\* list.sort(key = tile_count): ascending, equal keys keep their order
sort_by_tile_count(grids) ==
    LET before(i, j) == \/ grids[i].tile_count < grids[j].tile_count
                        \/ grids[i].tile_count = grids[j].tile_count /\ i < j
        rank(i)      == Cardinality({ j \in 1..Len(grids) : before(j, i) }) + 1
    IN  [r \in 1..Len(grids) |-> grids[CHOOSE i \in 1..Len(grids) : rank(i) = r]]

generate_pattern_grids(patterns) ==
    LET grids == [k \in 1..Len(SelectSeq(patterns, pattern_is_aligned)) |->
                     pattern_grid(SelectSeq(patterns, pattern_is_aligned)[k])]
    IN  IF \E k \in 1..Len(grids) : grids[k].outcome # "ok"
          THEN [ret |-> None, outcome |-> "IndexError"]
          ELSE [ret |-> sort_by_tile_count(grids), outcome |-> "ok"]

\* the cell of an image grid, a row-major list of booleans
grid_cell(grid, x, y) == grid.data[y * grid.width + x + 1]

test_pattern_grid(p_grid, i_grid, x_offset, y_offset) ==
    LET cells     == (0..(p_grid.width - 1)) \X (0..(p_grid.height - 1))
        i_tile(c) == grid_cell(i_grid, c[1] + x_offset, c[2] + y_offset)
        p_tile(c) == grid_cell(p_grid, c[1], c[2])
    IN  IF \E c \in cells : i_tile(c) /\ ~p_tile(c)
          THEN [valid |-> FALSE, n_unused_tiles |-> -1]
          ELSE [valid |-> Cardinality({ c \in cells : i_tile(c) }) = i_grid.tile_count,
                n_unused_tiles |-> Cardinality({ c \in cells : ~i_tile(c) /\ p_tile(c) })]

\* the image is held as the set of its 8x8 cells that are not transparent
is_small_tile_not_transparent(image, x, y) == <<x \div 8, y \div 8>> \in image

\* the image grid of the frame at (x_offset, y_offset)
image_grid(image, x_offset, y_offset, frame_width, frame_height) ==
    LET width  == frame_width \div 8
        height == frame_height \div 8
        data   == [i \in 1..(width * height) |->
                     is_small_tile_not_transparent(image,
                         x_offset + 8 * ((i - 1) % width), y_offset + 8 * ((i - 1) \div width))]
    IN  [ tile_count |-> Cardinality({ i \in 1..(width * height) : data[i] }),
          width |-> width, height |-> height, data |-> data, pattern |-> None ]

\* the (pattern grid, x, y) the three loops go through, in their order
scan_order(pattern_grids, i_grid) ==
    LET fits(g)  == /\ g.tile_count >= i_grid.tile_count
                    /\ g.width <= i_grid.width /\ g.height <= i_grid.height
        all      == { <<k, y, x>> \in (1..Len(pattern_grids)) \X (0..i_grid.height)
                                                              \X (0..i_grid.width) :
                         /\ fits(pattern_grids[k])
                         /\ y <= i_grid.height - pattern_grids[k].height
                         /\ x <= i_grid.width - pattern_grids[k].width }
        before(a, b) == \/ a[1] < b[1]
                        \/ a[1] = b[1] /\ a[2] < b[2]
                        \/ a[1] = b[1] /\ a[2] = b[2] /\ a[3] < b[3]
    IN  [r \in 1..Cardinality(all) |->
            CHOOSE a \in all : Cardinality({ b \in all : before(b, a) }) = r - 1]

\* faulty variant: a candidate that is as good as the best replaces it
is_better_or_equal(n_unused_tiles, best_n_unused_tiles) ==
    n_unused_tiles <= best_n_unused_tiles

is_better(n_unused_tiles, best_n_unused_tiles) == n_unused_tiles < best_n_unused_tiles

RECURSIVE find_best_loop(_, _, _, _, _)
\* the body of the loops from the n-th (pattern grid, x, y) on
find_best_loop(n, order, pattern_grids, i_grid, best) ==
    IF n > Len(order) THEN best
    ELSE TheValue({ find_best_loop(n + 1, order, pattern_grids, i_grid, next)
                    : next \in {
                        LET p_grid == pattern_grids[order[n][1]]
                            t == test_pattern_grid(p_grid, i_grid, order[n][3], order[n][2])
                        IN  IF t.valid /\ is_better(t.n_unused_tiles, best.best_n_unused_tiles)
                              THEN [ best_n_unused_tiles |-> t.n_unused_tiles,
                                     best_pattern |-> p_grid.pattern,
                                     best_x |-> order[n][3] * 8,
                                     best_y |-> order[n][2] * 8 ]
                              ELSE best } })

find_best_pattern(image, pattern_grids, x_offset, y_offset, frame_width, frame_height) ==
    IF frame_width % 8 # 0 \/ frame_height % 8 # 0
      THEN [ret |-> None, outcome |-> "ValueError"]
      ELSE TheValue({
             IF best.best_pattern = None
               THEN [ret |-> None, outcome |-> "ValueError"]
               ELSE [ret |-> <<best.best_pattern, best.best_x, best.best_y>>, outcome |-> "ok"]
             : best \in { TheValue({
                   find_best_loop(1, scan_order(pattern_grids, i_grid), pattern_grids, i_grid,
                       [ best_n_unused_tiles |-> 65535, best_pattern |-> None,
                         best_x |-> 0, best_y |-> 0 ])
                   : i_grid \in { image_grid(image, x_offset, y_offset,
                                             frame_width, frame_height) } }) } })

\* MsPattern
Pattern(id, objects) ==
    [ id |-> id,
      objects |-> [k \in 1..Len(objects) |->
                      [xpos |-> objects[k][1], ypos |-> objects[k][2], size |-> objects[k][3]]] ]

P_1x1 == Pattern(0, << <<0, 0, 8>> >>)

P_2x1 == Pattern(2, << <<0, 0, 8>>, <<8, 0, 8>> >>)

P_1x2 == Pattern(4, << <<0, 0, 8>>, <<0, 8, 8>> >>)

P_corner == Pattern(6, << <<0, 0, 8>>, <<8, 0, 8>>, <<0, 8, 8>> >>)

P_16 == Pattern(8, << <<0, 0, 16>> >>)

\* not on the 8 pixel grid
P_unaligned == Pattern(10, << <<4, 0, 8>> >>)

\* three objects whose bounding box starts 8 pixels right of the pattern's origin
P_corner_at_8 == Pattern(12, << <<8, 0, 8>>, <<16, 0, 8>>, <<8, 8, 8>> >>)

\* one object, 8 pixels right of and below the pattern's origin
P_1x1_at_8 == Pattern(14, << <<8, 8, 8>> >>)

\* ms_export_orders.patterns, in the order of the export order file
Catalogues ==
    { << P_16, P_2x1, P_1x2, P_1x1 >>,
      << P_16, P_1x2, P_unaligned, P_corner, P_2x1 >>,
      << P_1x1, P_corner_at_8 >>,
      << P_1x1, P_1x1_at_8 >> }

ImageCells == (0..(MaxGridWidth - 1)) \X (0..1)

\* (frame_width, frame_height) of the frames searched
FrameSizes == { <<8 * MaxGridWidth, 16>>, <<16, 16>>, <<12, 16>> }

InitPattern ==
    /\ ms_input \in [ patterns : Catalogues, image : SUBSET ImageCells, frame : FrameSizes ]
    /\ ms_calls = <<>>
    /\ tileset = <<>>
    /\ pc = "generate_pattern_grids"
    /\ NotInserting
    /\ NotAssembling

PatternReturned(r, op, next_pc) ==
    /\ ms_calls' = Append(ms_calls, [op |-> op, ret |-> r.ret, outcome |-> r.outcome])
    /\ pc' = next_pc
    /\ UNCHANGED <<bc_vars, memory_map, view, bank_positions, last, n_calls, sfc_input,
                   link_vars, tileset, ms_input>>

Call_generate_pattern_grids ==
    /\ pc = "generate_pattern_grids"
    /\ \E r \in { generate_pattern_grids(ms_input.patterns) } :
          PatternReturned(r, "generate_pattern_grids",
                          IF r.outcome = "ok" THEN "find_best_pattern" ELSE "failed")

Call_find_best_pattern ==
    /\ pc = "find_best_pattern"
    /\ \E r \in { find_best_pattern(ms_input.image, ms_calls[1].ret, 0, 0,
                                    ms_input.frame[1], ms_input.frame[2]) } :
          PatternReturned(r, "find_best_pattern", "found")

NextPattern ==
    \/ Call_generate_pattern_grids
    \/ Call_find_best_pattern

SpecPattern == InitPattern /\ [][NextPattern]_vars

----------------------------------------------------------------------------
(* Claims about the pattern search *)

\* the cells of the frame searched, and those of them with content
FrameCells ==
    (0..((ms_input.frame[1] \div 8) - 1)) \X (0..((ms_input.frame[2] \div 8) - 1))

OccupiedCells == ms_input.image \cap FrameCells

\* the cells the objects of pattern p lie on when p is placed at pixel (x, y):
\* object o is extracted at (x + o.xpos, y + o.ypos)
PatternCells(p, x, y) ==
    UNION { { << ((x + p.objects[k].xpos) \div 8) + c[1],
                 ((y + p.objects[k].ypos) \div 8) + c[2] >> : c \in object_cells(p.objects[k]) }
            : k \in 1..Len(p.objects) }

\* the (pattern, x, y) of the catalogue that keep the pattern inside the frame
Placements ==
    { pl \in { ms_input.patterns[k] : k \in 1..Len(ms_input.patterns) }
               \X { 8 * c[1] : c \in FrameCells } \X { 8 * c[2] : c \in FrameCells } :
         /\ pattern_is_aligned(pl[1])
         /\ PatternCells(pl[1], pl[2], pl[3]) \subseteq FrameCells }

ValidPlacement(pl) == OccupiedCells \subseteq PatternCells(pl[1], pl[2], pl[3])

Waste(pl) == Cardinality(PatternCells(pl[1], pl[2], pl[3]) \ OccupiedCells)

\* C16: when some pattern of the catalogue covers the frame's occupied cells
\* at some offset, find_best_pattern returns a (pattern, x, y) that covers
\* them and whose waste is minimal over all the valid placements of the
\* catalogue.
C16_BestPattern ==
    (/\ pc = "found"
     /\ ms_input.frame[1] % 8 = 0 /\ ms_input.frame[2] % 8 = 0
     /\ \E pl \in Placements : ValidPlacement(pl))
        => /\ ms_calls[2].outcome = "ok"
           /\ ValidPlacement(ms_calls[2].ret)
           /\ \A pl \in Placements : ValidPlacement(pl) => Waste(ms_calls[2].ret) <= Waste(pl)

\* the catalogue generate_pattern_grids returned
PatternGrids == ms_calls[1].ret

\* position of pattern p in the export order file
CatalogueIndex(p) == CHOOSE k \in 1..Len(ms_input.patterns) : ms_input.patterns[k] = p

\* the cells of pattern grid g that are set, with g at cell offset (x, y)
GridCells(g, x, y) ==
    { <<x + c[1], y + c[2]>> : c \in { d \in (0..(g.width - 1)) \X (0..(g.height - 1)) :
                                          grid_cell(g, d[1], d[2]) } }

\* <<k, y, x>>: pattern grid k at cell offset (x, y) lies inside the frame and
\* every occupied cell of the frame is on a set cell of the grid
GridCandidates ==
    { a \in (1..Len(PatternGrids)) \X (0..(ms_input.frame[2] \div 8))
                                    \X (0..(ms_input.frame[1] \div 8)) :
         /\ a[3] + PatternGrids[a[1]].width <= ms_input.frame[1] \div 8
         /\ a[2] + PatternGrids[a[1]].height <= ms_input.frame[2] \div 8
         /\ OccupiedCells \subseteq GridCells(PatternGrids[a[1]], a[3], a[2]) }

GridWaste(a) == Cardinality(GridCells(PatternGrids[a[1]], a[3], a[2]) \ OccupiedCells)

\* scanned earlier: an earlier pattern grid, or the same with an earlier row,
\* or the same row with an earlier column
ScannedBefore(a, b) ==
    \/ a[1] < b[1]
    \/ a[1] = b[1] /\ a[2] < b[2]
    \/ a[1] = b[1] /\ a[2] = b[2] /\ a[3] < b[3]

\* C17: the catalogue is in ascending tile count, patterns of equal count in
\* the order of the export order file, and find_best_pattern returns the
\* candidate of minimal waste that is scanned first (patterns in catalogue
\* order, then rows, then columns): a later candidate of the same waste does
\* not replace it.
C17_FirstOfTheBest ==
    /\ (Len(ms_calls) >= 1 /\ ms_calls[1].outcome = "ok") =>
          \A j, k \in 1..Len(PatternGrids) : j < k =>
              \/ PatternGrids[j].tile_count < PatternGrids[k].tile_count
              \/ /\ PatternGrids[j].tile_count = PatternGrids[k].tile_count
                 /\ CatalogueIndex(PatternGrids[j].pattern) < CatalogueIndex(PatternGrids[k].pattern)
    /\ (pc = "found" /\ ms_calls[2].outcome = "ok") =>
          \E a \in GridCandidates :
              /\ ms_calls[2].ret = <<PatternGrids[a[1]].pattern, 8 * a[3], 8 * a[2]>>
              /\ \A b \in GridCandidates :
                    \/ GridWaste(a) < GridWaste(b)
                    \/ GridWaste(a) = GridWaste(b) /\ (a = b \/ ScannedBefore(a, b))

\* the sort moved the 16x16 pattern from the head of the catalogue to its end,
\* a 1x2 and a 2x1 pattern waste as little as each other at several offsets,
\* and the 1x2 pattern, listed first, was returned at the first of them
C17_Witness ==
    /\ pc = "found" /\ ms_calls[2].outcome = "ok"
    /\ ms_input.patterns[1] = P_16
    /\ PatternGrids[Len(PatternGrids)].pattern = P_16
    /\ ms_calls[2].ret = <<P_1x2, 8, 0>>
    /\ \E a, b \in GridCandidates :
          /\ PatternGrids[a[1]].pattern = P_2x1
          /\ PatternGrids[b[1]].pattern = P_1x2 /\ b[3] = 1
          /\ \A d \in GridCandidates : GridWaste(a) <= GridWaste(d) /\ GridWaste(b) <= GridWaste(d)

----------------------------------------------------------------------------
(* add_i8aabb applied to the boxes of a frameset *)

\* Aabb, or None for a frame without the box
Boxes ==
    {None} \cup [x : {-1, 0, 72, 128}, y : {0, 72}, width : {0, 8, 100, 200}, height : {8, 200}]

\* MsFrameset: frames below 256 pixels, the origin anywhere in them
FramesetsOfBoxes ==
    { fs \in [frame_width : {16, 255}, frame_height : {16, 255},
              x_origin : {0, 8, 128, 200}, y_origin : {0, 8, 128}] :
         fs.x_origin < fs.frame_width /\ fs.y_origin < fs.frame_height }

\* the record so far: empty before the hitbox, four bytes before the hurtbox
RecordsSoFar == { <<>>, <<NO_AABB_VALUE, NO_AABB_VALUE, NO_AABB_VALUE, NO_AABB_VALUE>> }

InitAabb ==
    /\ ms_input \in [data : RecordsSoFar, box : Boxes, fs : FramesetsOfBoxes]
    /\ ms_calls = <<>>
    /\ tileset = <<>>
    /\ pc = "add_i8aabb"
    /\ NotInserting
    /\ NotAssembling

Call_add_i8aabb ==
    /\ pc = "add_i8aabb"
    /\ \E r \in { add_i8aabb(ms_input.data, ms_input.box, ms_input.fs) } :
          ms_calls' = Append(ms_calls, [op |-> "add_i8aabb", ret |-> r.data,
                                        outcome |-> r.outcome])
    /\ pc' = "done"
    /\ UNCHANGED <<bc_vars, memory_map, view, bank_positions, last, n_calls, sfc_input,
                   link_vars, tileset, ms_input>>

NextAabb == Call_add_i8aabb

SpecAabb == InitAabb /\ [][NextAabb]_vars

\* the four bytes add_i8aabb appended to the record
EmittedAabb == SubSeq(ms_calls[1].ret, Len(ms_input.data) + 1, Len(ms_input.data) + 4)

\* a byte read as a signed 8-bit integer
SignedByte(b) == IF b >= 128 THEN b - 256 ELSE b

\* C18: for every box add_i8aabb accepts, the four bytes read as signed 8-bit
\* offsets plus the frame origin are x, x + width, y, y + height.
C18_AabbRoundTrip ==
    (pc = "done" /\ ms_calls[1].outcome = "ok" /\ ms_input.box # None) =>
        /\ SignedByte(EmittedAabb[1]) + ms_input.fs.x_origin = ms_input.box.x
        /\ SignedByte(EmittedAabb[2]) + ms_input.fs.x_origin = ms_input.box.x + ms_input.box.width
        /\ SignedByte(EmittedAabb[3]) + ms_input.fs.y_origin = ms_input.box.y
        /\ SignedByte(EmittedAabb[4]) + ms_input.fs.y_origin = ms_input.box.y + ms_input.box.height

\* C19: the first byte emitted is 0x80 exactly when the box is absent, an
\* absent box is four 0x80 bytes, and a present box whose x1 offset is the
\* signed byte 0x80 is refused with nothing appended to the record.
C19_ReservedX1 ==
    pc = "done" =>
        /\ ms_calls[1].outcome = "ok" =>
              /\ Len(ms_calls[1].ret) = Len(ms_input.data) + 4
              /\ SubSeq(ms_calls[1].ret, 1, Len(ms_input.data)) = ms_input.data
              /\ EmittedAabb[1] = 128 <=> ms_input.box = None
        /\ ms_input.box = None =>
              ms_calls[1].outcome = "ok" /\ EmittedAabb = <<128, 128, 128, 128>>
        /\ (ms_input.box # None /\ ms_input.box.x - ms_input.fs.x_origin \in {-128, 128}) =>
              ms_calls[1].outcome = "ValueError" /\ ms_calls[1].ret = ms_input.data

\* a box that is inside the frame and starts 128 pixels left of the origin
\* was refused, the hitbox bytes before it untouched
C19_Witness ==
    /\ pc = "done"
    /\ ms_input.box # None
    /\ ms_input.box.x = 0 /\ ms_input.box.y = 0
    /\ ms_input.box.width = 8 /\ ms_input.box.height = 8
    /\ ms_input.fs.x_origin = 128
    /\ ms_input.data # <<>>
    /\ ms_calls[1].outcome = "ValueError"
    /\ ms_calls[1].ret = ms_input.data

----------------------------------------------------------------------------
(* tools/convert_metasprite.py: build_animation_data, and the get_frame_id *)
(* that build_frameset hands to it                                         *)
(*                                                                         *)
(* A delay (float or int) is held as a whole number of 1/32: all the       *)
(* delays of the model are exact as floats, and so is 16 times a delay.    *)
(* An optional delay is None or the one-element list of the delay.         *)

\* longest list of frames of an animation
MaxAniFrames == 2

DelayUnit == 32

\* int(d): towards zero
int_of(d) == IF d >= 0 THEN d \div DelayUnit ELSE -((-d) \div DelayUnit)

\* round(x) for x = n / 2: to the nearest integer, a half to the even one
round_half(n) ==
    IF n % 2 = 0 THEN n \div 2
    ELSE IF ((n - 1) \div 2) % 2 = 0 THEN (n - 1) \div 2 ELSE (n + 1) \div 2

animation_delay__distance(d) ==
    IF d < 0 \/ d >= 16 * DelayUnit
      THEN [ret |-> -1, outcome |-> "ValueError"]
      ELSE [ret |-> round_half(d), outcome |-> "ok"]

\* ANIMATION_DELAY_FUNCTIONS[delay_type](d)
ani_delay_converter(delay_type, d) ==
    CASE delay_type = "none"  -> [ret |-> 0, outcome |-> "ok"]
      [] delay_type = "frame" -> [ret |-> int_of(d), outcome |-> "ok"]
      [] OTHER                -> animation_delay__distance(d)

DelayTypes == {"none", "frame", "distance_x", "distance_y", "distance_xy"}

LOOPING_ANIMATION_DELAY_IDS ==
    [t \in DelayTypes |->
        CASE t = "none" -> 0 [] t = "frame" -> 2 [] t = "distance_x" -> 4
          [] t = "distance_y" -> 6 [] t = "distance_xy" -> 8]

NON_LOOPING_ANIMATION_DELAY_IDS ==
    [t \in DelayTypes |->
        CASE t = "none" -> 0 [] t = "frame" -> 10 [] t = "distance_x" -> 12
          [] t = "distance_y" -> 14 [] t = "distance_xy" -> 16]

END_OF_ANIMATION_BYTE == 255

MAX_FRAME_ID == 252

frame_id_overflows(fid) == fid > MAX_FRAME_ID

\* faulty variant: no frame is known to be exported
is_exported_never(ex, frame_name) == FALSE

\* frame_name in exported_frame_ids
is_exported(ex, frame_name) == frame_name \in DOMAIN ex.exported_frame_ids

\* AnimationError(name, message)
AnimationError(name, message) == [error |-> "AnimationError", name |-> name, message |-> message]

\* build_frameset.get_frame_id, on the variables of build_frameset it reads and
\* writes: ex = [exported_frame_ids, exported_frames, errors, ani_name]; frames
\* is the set of the names of the frames the blocks produced, and the record
\* frames[frame_name] is written frame_name
get_frame_id(ex, frames, frame_name) ==
    IF is_exported(ex, frame_name)
      THEN [ex |-> ex, ret |-> ex.exported_frame_ids[frame_name], outcome |-> "ok"]
    ELSE
    LET reported == IF frame_name \notin frames
                      THEN [ex EXCEPT !.errors = Append(@, AnimationError(ex.ani_name,
                                                   <<"Cannot find frame", frame_name>>))]
                      ELSE ex
        fid      == Len(ex.exported_frames)
    IN  IF frame_id_overflows(fid)
          THEN [ex |-> reported, ret |-> 0, outcome |-> "ok"]
        ELSE IF frame_name \notin frames
          \* frames[frame_name]
          THEN [ex |-> [reported EXCEPT !.exported_frame_ids = tiles_map_set(@, frame_name, fid)],
                ret |-> -1, outcome |-> "KeyError"]
          ELSE [ex |-> [reported EXCEPT !.exported_frame_ids = tiles_map_set(@, frame_name, fid),
                                        !.exported_frames = Append(@, frame_name)],
                ret |-> fid, outcome |-> "ok"]

\* bytearray.append(value)
bytearray_append(data, value) ==
    IF value \in 0..255 THEN [data |-> Append(data, value), outcome |-> "ok"]
                        ELSE [data |-> data, outcome |-> "ValueError"]

\* one pass of either loop: the frame id, then the delay d
animation_frame(st, frames, f, delay) ==
    TheValue({
      IF id.outcome # "ok" THEN [st EXCEPT !.ex = id.ex, !.outcome = id.outcome]
      ELSE TheValue({
        IF a.outcome # "ok" THEN [st EXCEPT !.ex = id.ex, !.outcome = a.outcome]
        ELSE IF delay.outcome # "ok" THEN [st EXCEPT !.ex = id.ex, !.data = a.data,
                                                     !.outcome = delay.outcome]
        ELSE TheValue({ [st EXCEPT !.ex = id.ex, !.data = b.data, !.outcome = b.outcome]
                        : b \in { bytearray_append(a.data, delay.ret) } })
        : a \in { bytearray_append(st.data, id.ret) } })
      : id \in { get_frame_id(st.ex, frames, f) } })

RECURSIVE animation_frames(_, _, _, _, _)
\* the loop over ani.frames, from frame lo to frame hi (the first half of the
\* frames, then the second on what the first left)
animation_frames(lo, hi, st, ani, frames) ==
    IF lo > hi \/ st.outcome # "ok" THEN st
    ELSE IF lo = hi
      THEN animation_frame(st, frames, ani.frames[lo],
                           IF ani.fixed_delay = None
                             THEN ani_delay_converter(ani.delay_type, ani.frame_delays[lo])
                             ELSE [ret |-> st.d, outcome |-> "ok"])
    ELSE TheValue({ animation_frames((lo + hi) \div 2 + 1, hi, half, ani, frames)
                    : half \in { animation_frames(lo, (lo + hi) \div 2, st, ani, frames) } })

\* faulty variant: an animation of one frame keeps the id of its delay type
process_function_of_delay_type(ani) ==
    IF ani.loop THEN LOOPING_ANIMATION_DELAY_IDS[ani.delay_type]
                ELSE NON_LOOPING_ANIMATION_DELAY_IDS[ani.delay_type]

process_function_of(ani) ==
    IF Len(ani.frames) = 1 THEN LOOPING_ANIMATION_DELAY_IDS["none"]
    ELSE IF ani.loop THEN LOOPING_ANIMATION_DELAY_IDS[ani.delay_type]
                     ELSE NON_LOOPING_ANIMATION_DELAY_IDS[ani.delay_type]

build_animation_data(ani, ex, frames) ==
    IF ani.delay_type = "none" /\ Len(ani.frames) # 1
      THEN [ex |-> ex, ret |-> None, outcome |-> "ValueError"]
    ELSE IF ani.fixed_delay = None /\ Len(ani.frame_delays) # Len(ani.frames)
      THEN [ex |-> ex, ret |-> None, outcome |-> "AssertionError"]
    ELSE
    LET fixed == IF ani.fixed_delay = None THEN [ret |-> 0, outcome |-> "ok"]
                 ELSE ani_delay_converter(ani.delay_type, ani.fixed_delay[1])
    IN  IF fixed.outcome # "ok" THEN [ex |-> ex, ret |-> None, outcome |-> fixed.outcome]
        ELSE TheValue({
               IF st.outcome # "ok" THEN [ex |-> st.ex, ret |-> None, outcome |-> st.outcome]
               ELSE [ex |-> st.ex, ret |-> Append(st.data, END_OF_ANIMATION_BYTE),
                     outcome |-> "ok"]
               : st \in { animation_frames(1, Len(ani.frames),
                             [ex |-> ex, data |-> <<process_function_of(ani)>>,
                              d |-> fixed.ret, outcome |-> "ok"],
                             ani, frames) } })

\* the frames the blocks of the frameset produced; frame 3 is not one of them
FrameNames == {1, 2}

AnimationFrameNames == {1, 2, 3}

\* 0, 1.5, 15.96875 (255.5 sixteenths) and 255
Delays == {0, 48, 511, 8160}

SeqsOf(S, n) == UNION { [1..k -> S] : k \in 1..n }

\* MsAnimation
Animations ==
    { ani \in [ loop : BOOLEAN, delay_type : DelayTypes,
                fixed_delay : {None, <<48>>},
                frames : SeqsOf(AnimationFrameNames, MaxAniFrames),
                frame_delays : {None} \cup SeqsOf(Delays, MaxAniFrames) ] :
         \/ ani.fixed_delay # None /\ ani.frame_delays = None
         \/ /\ ani.fixed_delay = None /\ ani.frame_delays # None
            /\ Len(ani.frame_delays) = Len(ani.frames) }

\* the frames the earlier animations of the frameset exported: none, or all
\* but the last that fits (they are named 1000, 1001, ...)
ExportedSoFar ==
    { [exported_frame_ids |-> [f \in 1000..(1000 + n - 1) |-> f - 1000],
       exported_frames    |-> [k \in 1..n |-> 1000 + k - 1],
       errors             |-> <<>>,
       ani_name           |-> "animation"] : n \in {0, MAX_FRAME_ID} }

InitAnimation ==
    /\ ms_input \in [ani : Animations, ex : ExportedSoFar]
    /\ ms_calls = <<>>
    /\ tileset = <<>>
    /\ pc = "build_animation_data"
    /\ NotInserting
    /\ NotAssembling

Call_build_animation_data ==
    /\ pc = "build_animation_data"
    /\ \E r \in { build_animation_data(ms_input.ani, ms_input.ex, FrameNames) } :
          ms_calls' = Append(ms_calls, [op |-> "build_animation_data", ret |-> r.ret,
                                        outcome |-> r.outcome, ex |-> r.ex])
    /\ pc' = "done"
    /\ UNCHANGED <<bc_vars, memory_map, view, bank_positions, last, n_calls, sfc_input,
                   link_vars, tileset, ms_input>>

NextAnimation == Call_build_animation_data

SpecAnimation == InitAnimation /\ [][NextAnimation]_vars

\* the id of frame f: the one it had, or the next one as frames are first used
\* in the order of the animation (0 once 253 frames are exported)
ExpectedFrameId(k) ==
    LET f     == ms_input.ani.frames[k]
        new   == { ms_input.ani.frames[j] : j \in 1..k } \ DOMAIN ms_input.ex.exported_frame_ids
        first == CHOOSE j \in 1..k : ms_input.ani.frames[j] = f
                                     /\ \A i \in 1..(j - 1) : ms_input.ani.frames[i] # f
        nth   == Cardinality({ ms_input.ani.frames[j] : j \in 1..first }
                                \ DOMAIN ms_input.ex.exported_frame_ids)
        fid   == Len(ms_input.ex.exported_frames) + nth - 1
    IN  IF f \in DOMAIN ms_input.ex.exported_frame_ids THEN ms_input.ex.exported_frame_ids[f]
        ELSE IF fid > 252 THEN 0 ELSE fid

\* C20: the data of an accepted animation of n >= 1 frames is 2n + 2 bytes:
\* the process function (0 when n = 1, else the looping or non-looping id of
\* the delay type), n pairs of frame id and delay in frame order, then 0xFF;
\* no frame id is 0xFF.
C20_AnimationData ==
    (pc = "done" /\ ms_calls[1].outcome = "ok") =>
        LET ani  == ms_input.ani
            n    == Len(ani.frames)
            data == ms_calls[1].ret
        IN  /\ Len(data) = 2 * n + 2
            /\ data[1] = IF n = 1 THEN 0
                         ELSE IF ani.loop THEN LOOPING_ANIMATION_DELAY_IDS[ani.delay_type]
                                          ELSE NON_LOOPING_ANIMATION_DELAY_IDS[ani.delay_type]
            /\ \A k \in 1..n : /\ data[2 * k] = ExpectedFrameId(k)
                               /\ data[2 * k] # 255
                               /\ data[2 * k + 1] \in 0..255
            /\ data[2 * n + 2] = 255

\* a non-looping animation of one frame with a per-frame distance delay was
\* given the process function 0
C20_Witness ==
    /\ pc = "done" /\ ms_calls[1].outcome = "ok"
    /\ Len(ms_input.ani.frames) = 1
    /\ ~ms_input.ani.loop
    /\ ms_input.ani.delay_type = "distance_xy"
    /\ ms_input.ani.fixed_delay = None
    /\ Len(ms_input.ex.exported_frames) = 252
    /\ ms_calls[1].ret = <<0, 252, 24, 255>>

----------------------------------------------------------------------------
(* The delay byte of one frame: ani_data.append(ani_delay_converter(d))    *)

\* the delays tried, in 1/32: from -1 to 17
DelayGrid == (-DelayUnit)..(17 * DelayUnit)

InitDelay ==
    /\ ms_input \in [delay_type : DelayTypes, d : DelayGrid]
    /\ ms_calls = <<>>
    /\ tileset = <<>>
    /\ pc = "delay"
    /\ NotInserting
    /\ NotAssembling

\* the delay is converted, then appended to the process function byte
Call_append_delay ==
    /\ pc = "delay"
    /\ \E r \in { TheValue({ IF b.outcome # "ok" THEN [data |-> <<0>>, outcome |-> b.outcome]
                             ELSE bytearray_append(<<0>>, b.ret)
                             : b \in { ani_delay_converter(ms_input.delay_type, ms_input.d) } }) } :
          ms_calls' = Append(ms_calls, [op |-> "append_delay", ret |-> r.data,
                                        outcome |-> r.outcome])
    /\ pc' = "done"
    /\ UNCHANGED <<bc_vars, memory_map, view, bank_positions, last, n_calls, sfc_input,
                   link_vars, tileset, ms_input>>

NextDelay == Call_append_delay

SpecDelay == InitDelay /\ [][NextDelay]_vars

\* C21: policy none emits 0; policy frame emits the delay truncated to an
\* integer; for the distance policies every delay 0 <= d < 16 is accepted and
\* emitted as 16 * d rounded to the nearest integer, a byte, and every delay
\* d < 0 or d >= 16 is rejected.
C21_DelayByte ==
    pc = "done" =>
        LET d       == ms_input.d
            emitted == ms_calls[1].outcome = "ok"
            byte    == ms_calls[1].ret[2]
        IN  /\ ms_input.delay_type = "none" => emitted /\ byte = 0
            /\ (ms_input.delay_type = "frame" /\ emitted) =>
                  IF d >= 0 THEN /\ byte * DelayUnit <= d
                                 /\ d < (byte + 1) * DelayUnit
                            ELSE byte = 0 /\ d > -DelayUnit
            /\ ms_input.delay_type \in {"distance_x", "distance_y", "distance_xy"} =>
                  IF 0 <= d /\ d < 16 * DelayUnit
                    THEN /\ emitted
                         /\ byte \in 0..255
                         /\ 2 * byte - d \in -1..1
                    ELSE ~emitted

----------------------------------------------------------------------------
(* build_frameset, from the animations on                                  *)

MAX_N_FRAMES == MAX_FRAME_ID + 1

MAX_N_ANIMATIONS == 255

\* FramesetError(name, errors)
FramesetError(name, errors) == [error |-> "FramesetError", name |-> name, errors |-> errors]

\* animations.get(name), animations being the list of the [name, data] set so far
animations_get(animations, name) ==
    IF \E i \in 1..Len(animations) : animations[i].name = name
      THEN animations[CHOOSE i \in 1..Len(animations) : animations[i].name = name].data
      ELSE None

RECURSIVE build_animations(_, _, _, _)
\* the loop over fs.animations.values(), from animation k on
build_animations(k, st, fs, frames) ==
    IF k > Len(fs.animations) \/ st.outcome # "ok" THEN st
    ELSE TheValue({
           build_animations(k + 1,
               IF r.outcome = "ok"
                 THEN [st EXCEPT !.ex = r.ex,
                                 !.animations = Append(@, [name |-> fs.animations[k].name,
                                                           data |-> r.ret])]
               ELSE IF r.outcome = "ValueError"
                 THEN [st EXCEPT !.ex = [r.ex EXCEPT !.errors =
                                           Append(@, AnimationError(fs.animations[k].name,
                                                                    "ValueError"))]]
                 ELSE [st EXCEPT !.ex = r.ex, !.outcome = r.outcome],
               fs, frames)
           : r \in { build_animation_data(fs.animations[k],
                                          [st.ex EXCEPT !.ani_name = fs.animations[k].name],
                                          frames) } })

\* the export order loop: the data of the animations found, the names of the others
export_order_animations(animations, export_order) ==
    LET found == [i \in 1..Len(export_order) |->
                     [name |-> export_order[i],
                      a    |-> animations_get(animations, export_order[i])]]
        is_found(e)  == e.a # None
        not_found(e) == e.a = None
        hits   == SelectSeq(found, is_found)
        misses == SelectSeq(found, not_found)
    IN  [eo_animations |-> [i \in 1..Len(hits) |-> hits[i].a],
         errors        |-> [i \in 1..Len(misses) |-> <<"Cannot find animation", misses[i].name>>]]

too_many_frames(exported_frames) == Len(exported_frames) > MAX_N_FRAMES

\* build_frameset once every block is read: frames is the set of the names of
\* the frames the blocks produced, export_order the animations of the export
\* order of the frameset
build_frameset(fs, frames, export_order) ==
    TheValue({
      IF st.outcome # "ok" THEN [ret |-> None, outcome |-> st.outcome, error |-> None]
      ELSE IF st.ex.errors # <<>>
        THEN [ret |-> None, outcome |-> "FramesetError",
              error |-> FramesetError(fs.name, st.ex.errors)]
      ELSE
      LET eo     == export_order_animations(st.animations, export_order)
          errors == (IF too_many_frames(st.ex.exported_frames)
                       THEN <<"Too many frames">> ELSE <<>>)
                    \o (IF Len(st.animations) > MAX_N_ANIMATIONS
                          THEN <<"Too many animations">> ELSE <<>>)
                    \o eo.errors
      IN  IF errors # <<>>
            THEN [ret |-> None, outcome |-> "FramesetError",
                  error |-> FramesetError(fs.name, errors)]
            ELSE [ret |-> [frames |-> st.ex.exported_frames, animations |-> eo.eo_animations],
                  outcome |-> "ok", error |-> None]
      : st \in { build_animations(1,
                    [ex |-> [exported_frame_ids |-> <<>>, exported_frames |-> <<>>,
                             errors |-> <<>>, ani_name |-> None],
                     animations |-> <<>>, outcome |-> "ok"],
                    fs, frames) } })

(* Inputs: framesets of up to MaxAnimations animations *)

MaxAnimations == 3

\* one more frame than a frameset can export
FramesetFrames == 1..(MAX_N_FRAMES + 1)

NamedAnimation(name, delay_type, fixed_delay, frames) ==
    [name |-> name, loop |-> TRUE, delay_type |-> delay_type, fixed_delay |-> <<fixed_delay>>,
     frames |-> frames, frame_delays |-> None]

\* "lost" shows a frame no block produced, "slow" has a delay of 255 where 16
\* is too many, "all" and "last" show every frame but the last, and the last
AnimationPool ==
    { NamedAnimation("walk", "frame", 48, <<2, 1>>),
      NamedAnimation("idle", "frame", 48, <<1, 3>>),
      NamedAnimation("lost", "frame", 48, <<2, MAX_N_FRAMES + 47>>),
      NamedAnimation("slow", "distance_x", 8160, <<1, 3>>),
      NamedAnimation("all", "frame", 48, [k \in 1..MAX_N_FRAMES |-> k]),
      NamedAnimation("last", "frame", 48, <<MAX_N_FRAMES + 1, 1>>) }

\* MsFrameset: the animations in the order of the file, no two of a name
Framesets ==
    { [name |-> "frameset", animations |-> a] :
        a \in { b \in SeqsOf(AnimationPool, MaxAnimations) :
                  \A i, j \in 1..Len(b) : i # j => b[i].name # b[j].name } }

\* MsExportOrder.animation_lists[fs.ms_export_order].animations
ExportOrders ==
    { <<"walk">>, <<"idle", "walk">>, <<"walk", "idle">>, <<"all", "last">>,
      <<"last", "all">>, <<"lost", "slow">>, <<"slow">>, <<"all">> }

InitFrameset ==
    /\ ms_input \in [fs : Framesets, export_order : ExportOrders]
    /\ ms_calls = <<>>
    /\ tileset = <<>>
    /\ pc = "build_frameset"
    /\ NotInserting
    /\ NotAssembling

Call_build_frameset ==
    /\ pc = "build_frameset"
    /\ \E r \in { build_frameset(ms_input.fs, FramesetFrames, ms_input.export_order) } :
          ms_calls' = Append(ms_calls, [op |-> "build_frameset", ret |-> r.ret,
                                        outcome |-> r.outcome, error |-> r.error])
    /\ pc' = "done"
    /\ UNCHANGED <<bc_vars, memory_map, view, bank_positions, last, n_calls, sfc_input,
                   link_vars, tileset, ms_input>>

NextFrameset == Call_build_frameset

SpecFrameset == InitFrameset /\ [][NextFrameset]_vars

RECURSIVE FramesShown(_)
\* the frame names a list of animations shows, in order
FramesShown(animations) ==
    IF animations = <<>> THEN <<>>
    ELSE animations[1].frames \o FramesShown(Tail(animations))

\* how many distinct names come before the first f in uses
FirstUseIndex(uses, f) ==
    LET first == CHOOSE j \in 1..Len(uses) :
                     uses[j] = f /\ \A i \in 1..(j - 1) : uses[i] # f
    IN  Cardinality({ uses[j] : j \in 1..first }) - 1

\* the animation of the frameset of that name
AnimationNamed(fs, name) ==
    fs.animations[CHOOSE i \in 1..Len(fs.animations) : fs.animations[i].name = name]

\* the animations of the export order, in export order
ExportedAnimations ==
    [i \in 1..Len(ms_input.export_order) |-> AnimationNamed(ms_input.fs, ms_input.export_order[i])]

FramesetBuilt == pc = "done" /\ ms_calls[1].outcome = "ok"

\* the animations of the frameset show no more frame names than a frameset exports
FramesFit ==
    Cardinality({ FramesShown(ms_input.fs.animations)[j] :
                    j \in 1..Len(FramesShown(ms_input.fs.animations)) }) <= MAX_N_FRAMES

\* every frame id in the data of the exported animations is the place of the
\* frame name among the distinct names of uses, and its place in the frame list
FrameIdsFollow(uses) ==
    \A i \in 1..Len(ms_input.export_order) :
      \A k \in 1..Len(ExportedAnimations[i].frames) :
        LET f  == ExportedAnimations[i].frames[k]
            id == ms_calls[1].ret.animations[i][2 * k]
        IN  /\ id = FirstUseIndex(uses, f)
            /\ id + 1 <= Len(ms_calls[1].ret.frames)
            /\ ms_calls[1].ret.frames[id + 1] = f

\* C22 as stated: the frame ids follow the first use of each frame name in the
\* animations of the export order, read in export order, whatever the order of
\* the animations in the frameset.
C22_FrameIdsInExportOrder ==
    (FramesetBuilt /\ FramesFit) => FrameIdsFollow(FramesShown(ExportedAnimations))

\* C22: the frame ids follow the first use of each frame name in the animations
\* of the frameset, read in the order of the frameset (exported or not): the
\* k-th distinct frame name gets id k, every later reference the same id, and
\* the exported frame list holds that frame at index k, as long as the
\* animations show no more than MAX_N_FRAMES frame names.
C22_FrameIdsInFramesetOrder ==
    (FramesetBuilt /\ FramesFit) => FrameIdsFollow(FramesShown(ms_input.fs.animations))

\* idle, then walk, exported as walk, then idle: frame 2, the first of the
\* export order, has id 2
C22_Witness ==
    /\ FramesetBuilt
    /\ Len(ms_input.fs.animations) = 2
    /\ ms_input.fs.animations[1].name = "idle"
    /\ ms_input.fs.animations[2].name = "walk"
    /\ ms_input.export_order = <<"walk", "idle">>
    /\ ms_calls[1].ret.frames = <<1, 3, 2>>
    /\ ms_calls[1].ret.animations[1][2] = 2
    /\ ms_calls[1].ret.animations[1][4] = 0

\* C23: a frameset whose animations show more than MAX_N_FRAMES distinct frame
\* names is rejected, and in the data of a frameset that is built no two frame
\* names have the same frame id.
C23_TooManyFrames ==
    pc = "done" =>
        /\ ~FramesFit => ms_calls[1].outcome # "ok"
        /\ FramesetBuilt =>
             \A i, j \in 1..Len(ms_input.export_order) :
               \A k \in 1..Len(ExportedAnimations[i].frames) :
                 \A l \in 1..Len(ExportedAnimations[j].frames) :
                    ms_calls[1].ret.animations[i][2 * k] = ms_calls[1].ret.animations[j][2 * l]
                       => ExportedAnimations[i].frames[k] = ExportedAnimations[j].frames[l]

\* the animation shows a frame no block produced, or has a delay its delay type
\* does not take
Defective(ani) ==
    \/ \E k \in 1..Len(ani.frames) : ani.frames[k] \notin FramesetFrames
    \/ /\ ani.delay_type \in {"distance_x", "distance_y", "distance_xy"}
       /\ ani.fixed_delay[1] \notin 0..(16 * DelayUnit - 1)

\* C24: when animations of the frameset are defective, build_frameset raises
\* one FramesetError naming the frameset, with one AnimationError for each
\* defective animation, naming it.
C24_ErrorsTogether ==
    (/\ pc = "done"
     /\ \E i \in 1..Len(ms_input.fs.animations) : Defective(ms_input.fs.animations[i]))
        => /\ ms_calls[1].outcome = "FramesetError"
           /\ ms_calls[1].error.name = ms_input.fs.name
           /\ \A i \in 1..Len(ms_input.fs.animations) :
                Defective(ms_input.fs.animations[i]) =>
                  Cardinality({ e \in 1..Len(ms_calls[1].error.errors) :
                                  ms_calls[1].error.errors[e]
                                     \in [error : {"AnimationError"},
                                          name : {ms_input.fs.animations[i].name},
                                          message : {ms_calls[1].error.errors[e].message}] }) = 1

----------------------------------------------------------------------------
(* The msfs text: msfs_entries_to_text and text_to_msfs_entries            *)
(* A str is a sequence of characters, a bytes a sequence of 0..255         *)

HexDigits == <<"0", "1", "2", "3", "4", "5", "6", "7", "8", "9", "a", "b", "c", "d", "e", "f">>

\* bytes.hex()
bytes_hex(b) ==
    [i \in 1..(2 * Len(b)) |->
        HexDigits[(IF i % 2 = 1 THEN b[(i + 1) \div 2] \div 16 ELSE b[i \div 2] % 16) + 1]]

is_hex_digit(c) == \E i \in 1..16 : HexDigits[i] = c

hex_digit_value(c) == (CHOOSE i \in 1..16 : HexDigits[i] = c) - 1

\* the ASCII whitespace bytes.fromhex skips between bytes
AsciiWhitespace == {" ", "\n", "\t", "\r"}

RECURSIVE bytes_fromhex(_)
\* bytes.fromhex(s)
bytes_fromhex(s) ==
    IF s = <<>> THEN [ret |-> <<>>, outcome |-> "ok"]
    ELSE IF s[1] \in AsciiWhitespace THEN bytes_fromhex(Tail(s))
    ELSE IF Len(s) < 2 \/ ~is_hex_digit(s[1]) \/ ~is_hex_digit(s[2])
      THEN [ret |-> <<>>, outcome |-> "ValueError"]
    ELSE TheValue({ IF r.outcome # "ok" THEN r
                    ELSE [ret |-> <<16 * hex_digit_value(s[1]) + hex_digit_value(s[2])>> \o r.ret,
                          outcome |-> "ok"]
                    : r \in { bytes_fromhex(SubSeq(s, 3, Len(s))) } })

RECURSIVE str_join(_, _)
\* sep.join(parts)
str_join(sep, parts) ==
    IF parts = <<>> THEN <<>>
    ELSE IF Len(parts) = 1 THEN parts[1]
    ELSE parts[1] \o sep \o str_join(sep, Tail(parts))

RECURSIVE str_split(_, _)
\* s.split(sep), sep one character
str_split(s, sep) ==
    IF \A i \in 1..Len(s) : s[i] # sep THEN <<s>>
    ELSE TheValue({ <<SubSeq(s, 1, i - 1)>> \o str_split(SubSeq(s, i + 1, Len(s)), sep)
                    : i \in { SetMin({ j \in 1..Len(s) : s[j] = sep }) } })

\* the line msfs_entries_to_text writes for one entry
msfs_entry_line(entry) ==
    entry.fullname \o <<" ">> \o entry.ms_export_order \o <<" ">> \o bytes_hex(entry.header)
      \o <<" ">> \o entry.pattern
      \o <<" ">> \o str_join(<<",">>, [i \in 1..Len(entry.frames) |-> bytes_hex(entry.frames[i])])
      \o <<" ">> \o str_join(<<",">>, [i \in 1..Len(entry.animations) |->
                                          bytes_hex(entry.animations[i])])
      \o <<"\n">>

msfs_entries_to_text(msfs_entries) ==
    str_join(<<>>, [i \in 1..Len(msfs_entries) |-> msfs_entry_line(msfs_entries[i])])

RECURSIVE text_lines(_)
\* the lines of a text as a file gives them, each with its line end
text_lines(text) ==
    IF text = <<>> THEN <<>>
    ELSE IF \A i \in 1..Len(text) : text[i] # "\n" THEN <<text>>
    ELSE TheValue({ <<SubSeq(text, 1, i)>> \o text_lines(SubSeq(text, i + 1, Len(text)))
                    : i \in { SetMin({ j \in 1..Len(text) : text[j] = "\n" }) } })

\* [ bytes.fromhex(i) for i in field.split(',') ]
hex_list(field) ==
    TheValue({ IF \E i \in 1..Len(blobs) : blobs[i].outcome # "ok"
                 THEN [ret |-> <<>>, outcome |-> "ValueError"]
                 ELSE [ret |-> [i \in 1..Len(blobs) |-> blobs[i].ret], outcome |-> "ok"]
               : blobs \in { TheValue({ [i \in 1..Len(parts) |-> bytes_fromhex(parts[i])]
                                        : parts \in { str_split(field, ",") } }) } })

wrong_field_count(sep) == Len(sep) # 6

\* one pass of the loop of text_to_msfs_entries
msfs_entry_of_line(line) ==
    TheValue({
      IF wrong_field_count(sep) THEN [ret |-> None, outcome |-> "ValueError"]
      ELSE TheValue({
             IF f[1].outcome # "ok" \/ f[2].outcome # "ok" \/ f[3].outcome # "ok"
               THEN [ret |-> None, outcome |-> "ValueError"]
               ELSE [ret |-> [fullname |-> sep[1], ms_export_order |-> sep[2],
                              header |-> f[1].ret, pattern |-> sep[4],
                              frames |-> f[2].ret, animations |-> f[3].ret],
                     outcome |-> "ok"]
             : f \in { <<bytes_fromhex(sep[3]), hex_list(sep[5]), hex_list(sep[6])>> } })
      : sep \in { str_split(line, " ") } })

text_to_msfs_entries(line_iterator) ==
    TheValue({ IF \E i \in 1..Len(entries) : entries[i].outcome # "ok"
                 THEN [ret |-> None, outcome |-> "ValueError"]
                 ELSE [ret |-> [i \in 1..Len(entries) |-> entries[i].ret], outcome |-> "ok"]
               : entries \in { [i \in 1..Len(line_iterator) |->
                                  msfs_entry_of_line(line_iterator[i])] } })

(* Inputs: lists of up to MaxEntries entries *)

MaxEntries == 1

\* what build_msfs_entry gives: three header bytes; the frames and the
\* animations are those of the frameset, none when it has no animation
MsFsEntries ==
    [ fullname : { <<"c", ".", "P">>, <<"e", ".", "B">> },
      ms_export_order : { <<"e", "o">> },
      header : { <<0, 16, 255>>, <<1, 8, 8>> },
      pattern : { <<"s">>, <<"d", "_", "p">> },
      frames : { <<>>, << <<171>> >>, << <<0, 1, 2>>, <<255, 16>> >> },
      animations : { <<>>, << <<0, 0, 1, 255>> >>, << <<0, 0, 1, 255>>, <<5, 1, 1, 0, 1, 255>> >> } ]

\* lines no list of entries is written as: five fields, seven fields, none
OtherLines ==
    { << <<"c", " ", "e", " ", "0", "0", " ", "s", " ", "a", "b", "\n">> >>,
      << <<"c", " ", "e", " ", "0", "0", " ", "s", " ", "a", "b", " ", " ", "\n">> >>,
      << <<"\n">> >> }

InitText ==
    /\ ms_input \in SeqsOf(MsFsEntries, MaxEntries) \cup {<<>>}
    /\ ms_calls = <<>>
    /\ tileset = <<>>
    /\ pc = "msfs_entries_to_text"
    /\ NotInserting
    /\ NotAssembling

Call_msfs_entries_to_text ==
    /\ pc = "msfs_entries_to_text"
    /\ ms_calls' = Append(ms_calls, [op |-> "msfs_entries_to_text",
                                     ret |-> msfs_entries_to_text(ms_input), outcome |-> "ok"])
    /\ pc' = "text_to_msfs_entries"
    /\ UNCHANGED <<bc_vars, memory_map, view, bank_positions, last, n_calls, sfc_input,
                   link_vars, tileset, ms_input>>

\* the text is read back, or some other lines are
Call_text_to_msfs_entries ==
    /\ pc = "text_to_msfs_entries"
    /\ \E line_iterator \in {text_lines(ms_calls[1].ret)} \cup OtherLines :
         \E r \in { text_to_msfs_entries(line_iterator) } :
            ms_calls' = Append(ms_calls, [op |-> "text_to_msfs_entries", lines |-> line_iterator,
                                          ret |-> r.ret, outcome |-> r.outcome])
    /\ pc' = "done"
    /\ UNCHANGED <<bc_vars, memory_map, view, bank_positions, last, n_calls, sfc_input,
                   link_vars, tileset, ms_input>>

NextText == Call_msfs_entries_to_text \/ Call_text_to_msfs_entries

SpecText == InitText /\ [][NextText]_vars

\* C25: the lines of the text of a list of entries are read back as that list,
\* entry by entry and field by field, empty lists of frames or animations
\* included; a line that has not exactly 6 fields between spaces is rejected.
C25_TextRoundTrip ==
    pc = "done" =>
        /\ ms_calls[2].lines = text_lines(ms_calls[1].ret) =>
              ms_calls[2].outcome = "ok" /\ ms_calls[2].ret = ms_input
        /\ (\E i \in 1..Len(ms_calls[2].lines) :
               Cardinality({ j \in 1..Len(ms_calls[2].lines[i]) :
                               ms_calls[2].lines[i][j] = " " }) # 5)
              => ms_calls[2].outcome = "ValueError"

----------------------------------------------------------------------------
(* build_ms_fs_data: the table of the frameset headers                     *)

\* RomData(addr, max_size): the bytes placed from addr on
RomData(addr, max_size) == [addr |-> addr, max_size |-> max_size, data |-> <<>>]

\* RomData.allocate(size): size more bytes, and the address of the first
RomData_allocate(self, size) ==
    IF Len(self.data) + size > self.max_size
      THEN [self |-> self, addr |-> -1, outcome |-> "RuntimeError"]
      ELSE [self |-> [self EXCEPT !.data = @ \o [i \in 1..size |-> 0]],
            addr |-> self.addr + Len(self.data), outcome |-> "ok"]

\* the bytes of view from offset o on become values
view_set(data, o, values) ==
    [i \in 1..Len(data) |-> IF i > o /\ i <= o + Len(values) THEN values[i - o] ELSE data[i]]

RECURSIVE RomData_insert_blobs(_, _, _, _)
\* each blob is placed and its address written to the table at table_offset
RomData_insert_blobs(self, blobs, k, table_offset) ==
    IF k > Len(blobs) THEN [self |-> self, outcome |-> "ok"]
    ELSE TheValue({
           IF a.outcome # "ok" THEN [self |-> self, outcome |-> a.outcome]
           ELSE RomData_insert_blobs(
                  [a.self EXCEPT !.data =
                      view_set(view_set(@, a.addr - self.addr, blobs[k]),
                               table_offset + 2 * (k - 1), <<a.addr % 256, a.addr \div 256>>)],
                  blobs, k + 1, table_offset)
           : a \in { RomData_allocate(self, Len(blobs[k])) } })

\* RomData.insert_data_addr_table(data_list): a table of the addresses of the
\* blobs, two bytes each, then the blobs; returns the address of the table
RomData_insert_data_addr_table(self, data_list) ==
    TheValue({
      IF t.outcome # "ok" THEN [self |-> self, addr |-> -1, outcome |-> t.outcome]
      ELSE TheValue({ [self |-> r.self, addr |-> t.addr, outcome |-> r.outcome]
                      : r \in { RomData_insert_blobs(t.self, data_list, 1,
                                                     t.addr - self.addr) } })
      : t \in { RomData_allocate(self, 2 * Len(data_list)) } })

MS_FRAMESET_FORMAT_SIZE == 9

\* faulty variant: the drawing function is written high byte first
u16_bytes_big_endian(value) == <<value \div 256, value % 256>>

\* value & 0xff, value >> 8
u16_bytes(value) == <<value % 256, value \div 256>>

\* fs_map[key] = value
fs_map_set(fs_map, key, value) ==
    [k \in DOMAIN fs_map \cup {key} |-> IF k = key THEN value ELSE fs_map[k]]

\* one pass of the inner loop of build_ms_fs_data, on
\* st = [rom_data, fs_pos, fs_map, outcome]
ms_fs_data_frameset(st, fs, symbols, fs_table_addr) ==
    TheValue({
      IF ft.outcome # "ok" THEN [st EXCEPT !.outcome = ft.outcome]
      ELSE TheValue({
        IF at.outcome # "ok" THEN [st EXCEPT !.outcome = at.outcome]
        ELSE IF <<"metasprites.drawing_functions", fs.pattern>> \notin DOMAIN symbols
          THEN [st EXCEPT !.rom_data = at.self, !.outcome = "KeyError"]
        ELSE IF Len(fs.header) # 3 \/ at.addr \div 256 > 255 \/ ft.addr \div 256 > 255
          THEN [st EXCEPT !.rom_data = at.self, !.outcome = "ValueError"]
        ELSE [rom_data |-> [at.self EXCEPT !.data =
                  view_set(@, fs_table_addr - st.rom_data.addr + st.fs_pos,
                           fs.header
                             \o u16_bytes(symbols[<<"metasprites.drawing_functions", fs.pattern>>]
                                            % 65536)
                             \o u16_bytes(ft.addr) \o u16_bytes(at.addr))],
              fs_pos   |-> st.fs_pos + MS_FRAMESET_FORMAT_SIZE,
              fs_map   |-> fs_map_set(st.fs_map, fs.fullname,
                                      <<fs_table_addr + st.fs_pos, fs.ms_export_order>>),
              outcome  |-> "ok"]
        : at \in { RomData_insert_data_addr_table(ft.self, fs.animations) } })
      : ft \in { RomData_insert_data_addr_table(st.rom_data, fs.frames) } })

RECURSIVE ms_fs_data_framesets(_, _, _, _, _)
\* the two loops, over the framesets of every spritesheet one after the other
ms_fs_data_framesets(k, st, framesets, symbols, fs_table_addr) ==
    IF k > Len(framesets) \/ st.outcome # "ok" THEN st
    ELSE ms_fs_data_framesets(k + 1,
                              ms_fs_data_frameset(st, framesets[k], symbols, fs_table_addr),
                              framesets, symbols, fs_table_addr)

RECURSIVE flatten(_)
\* the framesets of the spritesheets, in the order the two loops go through them
flatten(spritesheets) ==
    IF spritesheets = <<>> THEN <<>> ELSE spritesheets[1] \o flatten(Tail(spritesheets))

build_ms_fs_data(spritesheets, symbols, mapmode) ==
    IF Len(flatten(spritesheets)) = 0
      THEN [rom_data |-> None, fs_map |-> None, outcome |-> "AssertionError"]
    ELSE
    TheValue({
      IF t.outcome # "ok" THEN [rom_data |-> None, fs_map |-> None, outcome |-> t.outcome]
      ELSE TheValue({
        IF st.outcome # "ok" THEN [rom_data |-> None, fs_map |-> None, outcome |-> st.outcome]
        ELSE IF "common.Player" \notin DOMAIN st.fs_map
          THEN [rom_data |-> None, fs_map |-> None, outcome |-> "KeyError"]
        ELSE IF st.fs_map["common.Player"][1] # mapmode.bank_start
          THEN [rom_data |-> None, fs_map |-> None, outcome |-> "RuntimeError"]
          ELSE [rom_data |-> st.rom_data, fs_map |-> st.fs_map, outcome |-> "ok"]
        : st \in { ms_fs_data_framesets(1,
                      [rom_data |-> t.self, fs_pos |-> 0, fs_map |-> <<>>, outcome |-> "ok"],
                      flatten(spritesheets), symbols, t.addr) } })
      : t \in { RomData_allocate(RomData(mapmode.bank_start, mapmode.bank_size),
                                 Len(flatten(spritesheets)) * MS_FRAMESET_FORMAT_SIZE) } })

(* Inputs: up to MaxFramesets framesets in two spritesheets *)

MaxFramesets == 3

\* the entries of the framesets: two of each name
FsEntries ==
    { [fullname |-> n, ms_export_order |-> "eo", header |-> v.header, pattern |-> v.pattern,
       frames |-> v.frames, animations |-> v.animations] :
        n \in {"common.Player", "common.Enemy", "boss.Boss"},
        v \in { [header |-> <<0, 4, 6>>, pattern |-> "square", frames |-> << <<171>> >>,
                 animations |-> << <<0, 0, 1, 255>> >>],
                [header |-> <<2, 8, 8>>, pattern |-> "dynamic_pattern",
                 frames |-> << <<1, 2, 3>>, <<170, 187>> >>, animations |-> <<>>] } }

\* the addresses of the drawing functions, in the code banks
DrawingFunctions ==
    (<<"metasprites.drawing_functions", "square">> :> 12624180)
      @@ (<<"metasprites.drawing_functions", "dynamic_pattern">> :> 12619840)

\* two spritesheets sharing up to MaxFramesets framesets
Spritesheets ==
    UNION { { <<SubSeq(e, 1, cut), SubSeq(e, cut + 1, Len(e))>> : cut \in 0..Len(e) } :
              e \in SeqsOf(FsEntries, MaxFramesets) \cup {<<>>} }

InitMsFsData ==
    /\ ms_input \in [spritesheets : Spritesheets, mapmode : {HIROM, LOROM}]
    /\ ms_calls = <<>>
    /\ tileset = <<>>
    /\ pc = "build_ms_fs_data"
    /\ NotInserting
    /\ NotAssembling

Call_build_ms_fs_data ==
    /\ pc = "build_ms_fs_data"
    /\ \E r \in { build_ms_fs_data(ms_input.spritesheets, DrawingFunctions, ms_input.mapmode) } :
          ms_calls' = Append(ms_calls, [op |-> "build_ms_fs_data", rom_data |-> r.rom_data,
                                        fs_map |-> r.fs_map, outcome |-> r.outcome])
    /\ pc' = "done"
    /\ UNCHANGED <<bc_vars, memory_map, view, bank_positions, last, n_calls, sfc_input,
                   link_vars, tileset, ms_input>>

NextMsFsData == Call_build_ms_fs_data

SpecMsFsData == InitMsFsData /\ [][NextMsFsData]_vars

\* the framesets given, in spritesheet then frameset order
FramesetsGiven == flatten(ms_input.spritesheets)

\* the 16 bit value at address a of the rom data built
RomWord(a) ==
    LET o == a - ms_calls[1].rom_data.addr
    IN  ms_calls[1].rom_data.data[o + 1] + 256 * ms_calls[1].rom_data.data[o + 2]

\* at address a is a table of the addresses of the blobs
AddrTableAt(a, blobs) ==
    \A i \in 1..Len(blobs) :
      LET o == RomWord(a + 2 * (i - 1)) - ms_calls[1].rom_data.addr
      IN  SubSeq(ms_calls[1].rom_data.data, o + 1, o + Len(blobs[i])) = blobs[i]

\* the header of frameset k is at address a
HeaderAt(a, k) ==
    LET o  == a - ms_calls[1].rom_data.addr
        fs == FramesetsGiven[k]
    IN  /\ SubSeq(ms_calls[1].rom_data.data, o + 1, o + 3) = fs.header
        /\ RomWord(a + 3) = DrawingFunctions[<<"metasprites.drawing_functions", fs.pattern>>] % 65536
        /\ AddrTableAt(RomWord(a + 5), fs.frames)
        /\ AddrTableAt(RomWord(a + 7), fs.animations)

\* C26: the header of the k-th frameset (from 0, spritesheet by spritesheet) is
\* the 9 bytes at the table address + 9 k: 3 header bytes, then the addresses
\* of the drawing function, of the frame table and of the animation table, low
\* byte first; build_ms_fs_data succeeds only if the header of common.Player
\* is at the bank start, and raises otherwise.
C26_HeaderTable ==
    pc = "done" =>
        /\ ms_calls[1].outcome = "ok" =>
             /\ \A k \in 1..Len(FramesetsGiven) :
                   /\ HeaderAt(ms_input.mapmode.bank_start + 9 * (k - 1), k)
                   /\ \E j \in k..Len(FramesetsGiven) :
                        /\ FramesetsGiven[j].fullname = FramesetsGiven[k].fullname
                        /\ ms_calls[1].fs_map[FramesetsGiven[k].fullname]
                             = <<ms_input.mapmode.bank_start + 9 * (j - 1),
                                 FramesetsGiven[j].ms_export_order>>
             /\ FramesetsGiven[1].fullname = "common.Player"
             /\ ms_calls[1].fs_map["common.Player"][1] = ms_input.mapmode.bank_start
        /\ (FramesetsGiven = <<>> \/ FramesetsGiven[1].fullname # "common.Player")
             => ms_calls[1].outcome \in {"RuntimeError", "KeyError", "AssertionError"}

\* the player in one spritesheet and an enemy in the next: the header of the
\* enemy is the second, 9 bytes after the bank start
C26_Witness ==
    /\ pc = "done" /\ ms_calls[1].outcome = "ok"
    /\ ms_input.mapmode = LOROM
    /\ Len(ms_input.spritesheets[1]) = 1 /\ Len(ms_input.spritesheets[2]) = 1
    /\ FramesetsGiven[2].fullname = "common.Enemy"
    /\ FramesetsGiven[2].pattern = "dynamic_pattern"
    /\ ms_calls[1].fs_map["common.Enemy"][1] = 32768 + 9
    /\ SubSeq(ms_calls[1].rom_data.data, 10, 14) = <<2, 8, 8, 64, 144>>

----------------------------------------------------------------------------
(* Tileset: the places add_small_tile and add_large_tile give to new tiles *)

MaxAllocations == 9

\* the tile of the n-th call: no two calls bring the same pixels
NewSmallTile(n) == quartered_tile(<<10 * n, 10 * n, 10 * n, 10 * n>>, 8)

NewLargeTile(n) == quartered_tile(<<10 * n + 1, 10 * n + 2, 10 * n + 3, 10 * n + 4>>, 16)

InitAllocate ==
    /\ \E range \in TilesetRanges :
          /\ tileset_range_ok(range[1], range[2])
          /\ tileset = NewTileset(range[1], range[2])
    /\ ms_calls = <<>>
    /\ ms_input = <<>>
    /\ pc = "allocate"
    /\ NotInserting
    /\ NotAssembling

Call_add_small_tile ==
    /\ pc = "allocate"
    /\ Len(ms_calls) < MaxAllocations
    /\ \E tile_data \in { NewSmallTile(Len(ms_calls) + 1) } :
          \E r \in { add_small_tile(tileset, tile_data) } :
             TilesetReturned(r, "add_small_tile", tile_data)

Call_add_large_tile ==
    /\ pc = "allocate"
    /\ Len(ms_calls) < MaxAllocations
    /\ \E tile_data \in { NewLargeTile(Len(ms_calls) + 1) } :
          \E r \in { add_large_tile(tileset, tile_data) } :
             TilesetReturned(r, "add_large_tile", tile_data)

NextAllocate == Call_add_small_tile \/ Call_add_large_tile

SpecAllocate == InitAllocate /\ [][NextAllocate]_vars

\* the calls of add_small_tile among the first i calls
SmallCallsTo(i) == { j \in 1..i : ms_calls[j].op = "add_small_tile" }

\* the cells of 2x2 slots taken by the first i calls: one for each large tile
\* and one for each four small tiles, the last of them maybe not full
CellsTo(i) ==
    Cardinality({ j \in 1..i : ms_calls[j].op = "add_large_tile" })
      + (Cardinality(SmallCallsTo(i)) + 3) \div 4

\* the 0-based slot call i returned
SlotOf(i) == ms_calls[i].ret - tileset.starting_tile

\* the 0-based slots call i wrote
SlotsOf(i) ==
    IF ms_calls[i].op = "add_large_tile"
      THEN { SlotOf(i), SlotOf(i) + 1, SlotOf(i) + 16, SlotOf(i) + 17 }
      ELSE { SlotOf(i) }

IsCell(p) == p % 2 = 0 /\ p % 32 < 16

\* C27: whatever the order of the new small and large tiles, no slot is given
\* to two tiles; every slot written is below the length of the store, which is
\* 32 more for each row of 8 cells completed; a large tile is in the slots p,
\* p + 1, p + 0x10, p + 0x11 with p even and p mod 0x20 < 0x10; small tiles
\* fill one such cell in the order 0x00, 0x01, 0x10, 0x11 before the next cell
\* is taken.
C27_TilesetAllocation ==
    pc = "allocate" =>
        /\ Len(tileset.tiles) = 32 * (1 + CellsTo(Len(ms_calls)) \div 8)
        /\ \A i \in 1..Len(ms_calls) :
              /\ ms_calls[i].outcome = "ok"
              /\ \A p \in SlotsOf(i) : p >= 0 /\ p < Len(tileset.tiles)
              /\ \A j \in 1..Len(ms_calls) : i # j => SlotsOf(i) \cap SlotsOf(j) = {}
              /\ ms_calls[i].op = "add_large_tile" =>
                    /\ IsCell(SlotOf(i))
                    /\ tileset.tiles[SlotOf(i) + 1] = split_large_tile(ms_calls[i].tile_data)[1]
                    /\ tileset.tiles[SlotOf(i) + 2] = split_large_tile(ms_calls[i].tile_data)[2]
                    /\ tileset.tiles[SlotOf(i) + 17] = split_large_tile(ms_calls[i].tile_data)[3]
                    /\ tileset.tiles[SlotOf(i) + 18] = split_large_tile(ms_calls[i].tile_data)[4]
              /\ ms_calls[i].op = "add_small_tile" =>
                    LET nth   == Cardinality(SmallCallsTo(i)) - 1
                        first == CHOOSE j \in SmallCallsTo(i) :
                                    Cardinality(SmallCallsTo(j)) - 1 = nth - (nth % 4)
                    IN  /\ IsCell(SlotOf(first))
                        /\ SlotOf(i) = SlotOf(first) + <<0, 1, 16, 17>>[(nth % 4) + 1]
                        /\ tileset.tiles[SlotOf(i) + 1] = ms_calls[i].tile_data
        /\ \A p \in 1..Len(tileset.tiles) :
              tileset.tiles[p] # None => \E i \in 1..Len(ms_calls) : p - 1 \in SlotsOf(i)

\* a small tile took the last cell of the first row, the store grew to 64
\* slots, and the large tile after it is at slot 0x20
C27_Witness ==
    /\ pc = "allocate"
    /\ Len(ms_calls) = 9
    /\ Len(tileset.tiles) = 64
    /\ ms_calls[8].op = "add_small_tile" /\ SlotOf(8) = 14
    /\ ms_calls[9].op = "add_large_tile" /\ SlotOf(9) = 32
    /\ tileset.tiles[50] = split_large_tile(NewLargeTile(9))[4]

----------------------------------------------------------------------------
(* The audio bytecode assembler: Bytecode.start_loop and Bytecode.end_loop *)

END_LOOP_0 == 4

START_LOOP_0 == 11

MAX_N_LOOPS == 2

\* Bytecode.__init__
NewBytecode == [bytecode |-> <<>>, n_nested_loops |-> 0]

start_loop(self) ==
    IF self.n_nested_loops >= MAX_N_LOOPS
      THEN [self |-> self, outcome |-> "BytecodeError"]
      ELSE [self |-> [bytecode       |-> Append(self.bytecode, START_LOOP_0 + self.n_nested_loops),
                      n_nested_loops |-> self.n_nested_loops + 1],
            outcome |-> "ok"]

\* faulty variant: the opcode is taken before the loop is left
end_loop_of_the_depth_before(self, loop_count) ==
    IF loop_count < 2 \/ loop_count > 257 \/ self.n_nested_loops = 0
      THEN [self |-> self, outcome |-> "BytecodeError"]
      ELSE [self |-> [bytecode       |-> self.bytecode \o <<END_LOOP_0 + self.n_nested_loops,
                                                             loop_count - 2>>,
                      n_nested_loops |-> self.n_nested_loops - 1],
            outcome |-> "ok"]

end_loop(self, loop_count) ==
    IF loop_count < 2 THEN [self |-> self, outcome |-> "BytecodeError"]
    ELSE IF loop_count > 257 THEN [self |-> self, outcome |-> "BytecodeError"]
    ELSE IF self.n_nested_loops = 0 THEN [self |-> self, outcome |-> "BytecodeError"]
    ELSE IF self.n_nested_loops - 1 < 0 THEN [self |-> self, outcome |-> "AssertionError"]
    ELSE TheValue({ IF a.outcome # "ok" THEN [self |-> [self EXCEPT !.n_nested_loops = @ - 1],
                                              outcome |-> a.outcome]
                    ELSE TheValue({ [self |-> [bytecode |-> b.data,
                                               n_nested_loops |-> self.n_nested_loops - 1],
                                     outcome |-> b.outcome]
                                    : b \in { bytearray_append(a.data, loop_count - 2) } })
                    : a \in { bytearray_append(self.bytecode,
                                               END_LOOP_0 + self.n_nested_loops - 1) } })

(* Inputs: up to MaxInstructions instructions *)

MaxInstructions == 5

\* the loop counts at and around the two limits
LoopCounts == {1, 2, 3, 257, 258}

InitBytecode ==
    /\ bytecode = NewBytecode
    /\ bc_calls = <<>>
    /\ pc = "bytecode"
    /\ NotInserting
    /\ NotConverting

\* an instruction of the Bytecode has returned r
BytecodeReturned(r, op, argument) ==
    /\ bytecode' = r.self
    /\ bc_calls' = Append(bc_calls,
                          [op |-> op, argument |-> argument, outcome |-> r.outcome,
                           emitted |-> SubSeq(r.self.bytecode, Len(bytecode.bytecode) + 1,
                                              Len(r.self.bytecode))])
    /\ UNCHANGED <<ms_vars, memory_map, view, bank_positions, last, n_calls, sfc_input, pc,
                   link_vars>>

Call_start_loop ==
    /\ pc = "bytecode"
    /\ Len(bc_calls) < MaxInstructions
    /\ \E r \in { start_loop(bytecode) } : BytecodeReturned(r, "start_loop", None)

Call_end_loop ==
    /\ pc = "bytecode"
    /\ Len(bc_calls) < MaxInstructions
    /\ \E loop_count \in LoopCounts :
          \E r \in { end_loop(bytecode, loop_count) } :
             BytecodeReturned(r, "end_loop", <<loop_count>>)

NextBytecode == Call_start_loop \/ Call_end_loop

SpecBytecode == InitBytecode /\ [][NextBytecode]_vars

\* the instructions among the first i that opened a loop, and that closed one
LoopsOpenedTo(i) == { j \in 1..i : bc_calls[j].op = "start_loop" /\ bc_calls[j].outcome = "ok" }

LoopsClosedTo(i) == { j \in 1..i : bc_calls[j].op = "end_loop" /\ bc_calls[j].outcome = "ok" }

\* as many loops were opened as closed after instruction j
AllClosedAfter(j) ==
    Cardinality(LoopsOpenedTo(Len(bc_calls)) \ LoopsOpenedTo(j))
      = Cardinality(LoopsClosedTo(Len(bc_calls)) \ LoopsClosedTo(j))

\* the last start_loop among those still open: the one the next end_loop closes
InnermostOpenLoop ==
    CHOOSE j \in LoopsOpenedTo(Len(bc_calls)) :
       /\ AllClosedAfter(j)
       /\ \A k \in LoopsOpenedTo(Len(bc_calls)) : k > j => ~AllClosedAfter(k)

\* what one instruction does to the Bytecode, as C28 states it
LoopInstruction ==
    LET given == bc_calls'[Len(bc_calls')]
        depth == bytecode.n_nested_loops
    IN  /\ bytecode'.n_nested_loops \in 0..2
        /\ IF \/ given.op = "start_loop" /\ depth = 2
              \/ given.op = "end_loop" /\ depth = 0
              \/ given.op = "end_loop" /\ given.argument[1] \notin 2..257
             THEN given.outcome = "BytecodeError" /\ bytecode' = bytecode
             ELSE given.outcome = "ok"
        /\ (given.op = "end_loop" /\ given.outcome = "ok") =>
              /\ bytecode'.bytecode
                   = bytecode.bytecode
                       \o <<END_LOOP_0 + (bc_calls[InnermostOpenLoop].emitted[1] - START_LOOP_0),
                            given.argument[1] - 2>>
              /\ bytecode'.n_nested_loops = depth - 1

\* C28: n_nested_loops stays in 0..2; start_loop at depth 2, end_loop at depth
\* 0 and end_loop with a count outside 2..257 raise BytecodeError and leave the
\* bytecode and the depth as they were; a successful end_loop emits
\* END_LOOP_0 + d then count - 2, START_LOOP_0 + d being the opcode of the
\* start_loop it closes.
C28_NestedLoops == [][LoopInstruction]_vars

\* two loops were opened, the inner one closed with a count of 257 and the
\* outer one with a count of 2
C28_Witness ==
    /\ pc = "bytecode"
    /\ Len(bc_calls) = 5
    /\ bc_calls[3].op = "start_loop" /\ bc_calls[3].outcome = "BytecodeError"
    /\ bytecode.bytecode = <<11, 12, 5, 255, 4, 0>>
    /\ bytecode.n_nested_loops = 0

----------------------------------------------------------------------------
(* The patterns of load_ms_export_order_json, as extract_frame writes them *)

MAX_PATTERNS == 256

\* jh.build_ordered_dict_from_list('patterns', MsPattern, 256, ...) with the
\* function load_ms_export_order_json gives it: id = i * 2
load_patterns(pattern_list) ==
    IF \E i, j \in 1..Len(pattern_list) : i # j /\ pattern_list[i].name = pattern_list[j].name
      THEN [ret |-> None, outcome |-> "JsonError"]
    ELSE IF Len(pattern_list) > MAX_PATTERNS
      THEN [ret |-> None, outcome |-> "JsonError"]
      ELSE [ret |-> [i \in 1..Len(pattern_list) |->
                       [name |-> pattern_list[i].name, id |-> (i - 1) * 2,
                        objects |-> pattern_list[i].objects]],
            outcome |-> "ok"]

\* the numbers of patterns in the file: few, and at and around the limits
PatternCounts == {1, 2, 128, 129, 256, 257}

\* the 'patterns' of the file: n patterns of one 8x8 object, named 1..n
PatternList(n) == [i \in 1..n |-> [name |-> i, objects |-> P_1x1.objects]]

InitCatalogue ==
    /\ ms_input \in UNION { [n_patterns : {n}, used : 1..n] : n \in PatternCounts }
    /\ tileset = NewTileset(0, 512)
    /\ ms_calls = <<>>
    /\ pc = "load_ms_export_order_json"
    /\ NotInserting
    /\ NotAssembling

Call_load_ms_export_order_json ==
    /\ pc = "load_ms_export_order_json"
    /\ \E r \in { load_patterns(PatternList(ms_input.n_patterns)) } :
          /\ ms_calls' = Append(ms_calls, [op |-> "load_ms_export_order_json", ret |-> r.ret,
                                           outcome |-> r.outcome])
          /\ pc' = IF r.outcome = "ok" THEN "extract_frame" ELSE "rejected"
    /\ UNCHANGED <<bc_vars, memory_map, view, bank_positions, last, n_calls, sfc_input,
                   link_vars, tileset, ms_input>>

\* a frame is extracted with one pattern of the catalogue loaded
Call_extract_frame_of_pattern ==
    /\ pc = "extract_frame"
    /\ \E r \in { extract_frame(Frame(0, <<8>>, <<101>>, None).image,
                                [id |-> ms_calls[1].ret[ms_input.used].id,
                                 objects |-> ms_calls[1].ret[ms_input.used].objects],
                                PalettesMap, tileset, FramesetOfFrames, 0, 0, 8, 8,
                                None, None) } :
          /\ tileset' = r.self
          /\ ms_calls' = Append(ms_calls, [op |-> "extract_frame", ret |-> r.ret,
                                           outcome |-> r.outcome])
    /\ pc' = "done"
    /\ UNCHANGED <<bc_vars, memory_map, view, bank_positions, last, n_calls, sfc_input,
                   link_vars, ms_input>>

NextCatalogue == Call_load_ms_export_order_json \/ Call_extract_frame_of_pattern

SpecCatalogue == InitCatalogue /\ [][NextCatalogue]_vars

\* C29: the id of every pattern of a catalogue load_ms_export_order_json
\* accepts is a byte, and extract_frame writes it as the pattern id of the
\* frame: a frame is encoded with any pattern of the catalogue.
C29_PatternIdIsAByte ==
    /\ (Len(ms_calls) >= 1 /\ ms_calls[1].outcome = "ok") =>
          \A i \in 1..Len(ms_calls[1].ret) : ms_calls[1].ret[i].id \in 0..255
    /\ pc = "done" =>
          /\ ms_calls[2].outcome = "ok"
          /\ ms_calls[2].ret[9] = ms_calls[1].ret[ms_input.used].id

----------------------------------------------------------------------------
(* validate_sfc_file on symbol tables with variables in work RAM           *)

\* the memory maps of the linker, and one with the code in the banks 0x00 and
\* 0x01 of a LoROM cartridge
ValidatedMemoryMaps ==
    MemoryMaps \cup { [mode |-> LOROM, first_resource_bank |-> 2, n_resource_banks |-> 2] }

\* variables in work RAM (0x7E0100, 0x7E2000, 0x7F0000, 0x7FFFFF)
RamSymbols ==
    [frameCounter |-> 8257792, entities |-> 8265728, buffer |-> 8323072, lastByte |-> 8388607]

\* the labels the linker uses, any of the variables in work RAM, and maybe one
\* more label: in the bank before the resources, in their first bank, or after
SymbolTables(mm) ==
    { [k \in (DOMAIN Symbols(mm) \ {"frameCounter"}) \cup ram \cup extra |->
          IF k \in DOMAIN RamSymbols THEN RamSymbols[k]
          ELSE IF k = "LastLabel" THEN (mm.first_resource_bank - 1) * 65536 + 65535
          ELSE IF k = "ResourceLabel" THEN mm.first_resource_bank * 65536 + 32768
          ELSE IF k = "HighLabel" THEN (mm.first_resource_bank + 3) * 65536 + 32768
          ELSE Symbols(mm)[k]] :
        ram \in SUBSET DOMAIN RamSymbols,
        extra \in { {}, {"LastLabel"}, {"ResourceLabel"}, {"HighLabel"} } }

InitValidate ==
    /\ memory_map \in ValidatedMemoryMaps
    /\ view = AssembledImage(memory_map)
    /\ sfc_input = view
    /\ bank_positions = <<>>
    /\ last = NoCall
    /\ n_calls = 0
    /\ pc = "validate_sfc_file"
    /\ NotLinking
    /\ NotConverting
    /\ NotAssembling

Call_validate_sfc_file ==
    /\ pc = "validate_sfc_file"
    /\ \E symbols \in SymbolTables(memory_map) :
          last' = [op |-> "validate_sfc_file", symbols |-> symbols,
                   largest |-> get_largest_rom_address(symbols),
                   outcome |-> validate_sfc_file(view, symbols, memory_map)]
    /\ n_calls' = n_calls + 1
    /\ pc' = "validated"
    /\ UNCHANGED <<bc_vars, ms_vars, memory_map, view, bank_positions, sfc_input, link_vars>>

NextValidate == Call_validate_sfc_file

SpecValidate == InitValidate /\ [][NextValidate]_vars

\* the addresses of the table that are not in work RAM (banks 0x7E and 0x7F)
RomAddresses(symbols) ==
    { symbols[k] : k \in { l \in DOMAIN symbols : symbols[l] \div 65536 \notin {126, 127} } }

\* C30: get_largest_rom_address returns the largest of the addresses that are
\* not in work RAM, so validate_sfc_file rejects the image of the assembler
\* exactly when a ROM symbol is in a bank >= first_resource_bank, whatever the
\* variables in work RAM.
C30_RamSymbolsIgnored ==
    pc = "validated" =>
        /\ last.largest = Max(RomAddresses(last.symbols))
        /\ last.outcome = "RuntimeError"
             <=> \E a \in RomAddresses(last.symbols) :
                    a \div 65536 >= memory_map.first_resource_bank
====
